---- MODULE Spec2Model ----
(***************************************************************************)
(* Statblock parser of 5e-items-importer (monsterParser, part_001).        *)
(*                                                                         *)
(* Text model.  A line of text is a sequence of tokens; a token is a word  *)
(* (its letters in lower case in s, its case in cs: "T" first letter upper *)
(* case, "A" all capitals, "l" lower case), a run of digits (k) or one     *)
(* punctuation character (s).  Word and number tokens are separated by one *)
(* blank, so a trimmed line is its token sequence and a blank line is the  *)
(* empty sequence.  Regular expressions of the source are translated to    *)
(* matchers over token sequences.                                          *)
(***************************************************************************)
EXTENDS Integers, Sequences, FiniteSets, TLC

Up(s) == [c |-> "w", s |-> s, k |-> 0, cs |-> "T"]
Lo(s) == [c |-> "w", s |-> s, k |-> 0, cs |-> "l"]
Caps(s) == [c |-> "w", s |-> s, k |-> 0, cs |-> "A"]
Num(k) == [c |-> "n", s |-> "", k |-> k, cs |-> "l"]
P(ch) == [c |-> "p", s |-> ch, k |-> 0, cs |-> "l"]

None == "null"

RECURSIVE Digits(_)
Digits(k) == IF k < 10 THEN 1 ELSE 1 + Digits(k \div 10)

RECURSIVE Pow10(_)
Pow10(d) == IF d = 0 THEN 1 ELSE 10 * Pow10(d - 1)

TokChars(t) ==
  IF t.c = "w" THEN Len(t.s) ELSE IF t.c = "n" THEN Digits(t.k) ELSE 1

IsWord(t, s) == t.c = "w" /\ t.s = s
IsNum(t) == t.c = "n"
IsP(t, ch) == t.c = "p" /\ t.s = ch
IsWordChar(t) == t.c \in {"w", "n"}

\* String.prototype.toLowerCase on a piece of text
ToLower(toks) == [j \in 1..Len(toks) |-> [toks[j] EXCEPT !.cs = "l"]]

\* the line begins with the words ws, compared without case (flag i)
StartsWithWords(line, ws) ==
  /\ Len(line) >= Len(ws)
  /\ \A j \in 1..Len(ws) : IsWord(line[j], ws[j])

\* index of the first token at or after position from that satisfies the
\* test, 0 when there is none
FirstPunctFrom(line, from) ==
  LET S == {j \in from..Len(line) : line[j].c = "p"}
  IN IF S = {} THEN 0 ELSE CHOOSE j \in S : \A q \in S : j <= q

FirstCharFrom(line, ch, from) ==
  LET S == {j \in from..Len(line) : IsP(line[j], ch)}
  IN IF S = {} THEN 0 ELSE CHOOSE j \in S : \A q \in S : j <= q

\* \(([^\)]+)\) at position j: an opening parenthesis, at least one
\* character that is no closing parenthesis, a closing parenthesis
ParenClose(line, j) ==
  IF j <= Len(line) /\ IsP(line[j], "(")
  THEN LET q == FirstCharFrom(line, ")", j + 1)
       IN IF q > j + 1 THEN q ELSE 0
  ELSE 0

ParenText(line, j) == SubSeq(line, j + 1, ParenClose(line, j) - 1)

\* number of characters of the tokens 1..n of a line, blanks included
RECURSIVE CharsUpTo(_, _)
CharsUpTo(line, n) ==
  IF n = 0 THEN 0
  ELSE CharsUpTo(line, n - 1) + TokChars(line[n]) + (IF n > 1 THEN 1 ELSE 0)

TitleMax == 30

\* #regex.blockTitle  /^([A-Z][\w\s]+)\./
BlockTitle(line) ==
  LET p == FirstPunctFrom(line, 1)
  IN /\ p > 1
     /\ IsP(line[p], ".")
     /\ line[1].c = "w" /\ line[1].cs \in {"T", "A"}
     /\ CharsUpTo(line, p - 1) >= 2

\* #regex.otherBlock  /^([A-Z][\w\s]{0,30})\./
OtherBlock(line) ==
  LET p == FirstPunctFrom(line, 1)
  IN /\ p > 1
     /\ IsP(line[p], ".")
     /\ line[1].c = "w" /\ line[1].cs \in {"T", "A"}
     /\ CharsUpTo(line, p - 1) <= 1 + TitleMax

Sizes == {"tiny", "small", "medium", "large", "huge", "gargantuan"}
CreatureTypes ==
  {"aberration", "beast", "celestial", "construct", "dragon", "elemental",
   "fey", "fiend", "giant", "humanoid", "monstrosity", "ooze", "plant",
   "undead"}
AbilityIds == {"str", "dex", "con", "int", "wis", "cha"}

\* the alignment alternatives of #regex.racialDetails, in the order written
Alignments ==
  << <<Lo("lawful"), Lo("good")>>, <<Lo("neutral"), Lo("good")>>,
     <<Lo("chaotic"), Lo("good")>>, <<Lo("lawful"), Lo("neutral")>>,
     <<Lo("neutral")>>, <<Lo("chaotic"), Lo("neutral")>>,
     <<Lo("lawful"), Lo("evil")>>, <<Lo("neutral"), Lo("evil")>>,
     <<Lo("chaotic"), Lo("evil")>>, <<Lo("unaligned")>>,
     <<Lo("any"), Lo("alignment")>>,
     <<Lo("any"), Lo("non"), P("-"), Lo("good"), Lo("alignment")>>,
     <<Lo("any"), Lo("non"), P("-"), Lo("lawful"), Lo("alignment")>>,
     <<Lo("any"), Lo("chaotic"), Lo("alignment")>> >>

\* the tokens of alt stand at position j of the line, compared without case
AltAt(line, j, alt) ==
  /\ Len(line) >= j + Len(alt) - 1
  /\ \A q \in 1..Len(alt) :
       /\ line[j + q - 1].c = alt[q].c
       /\ line[j + q - 1].s = alt[q].s

NoMatch == [ok |-> FALSE]

\* #regex.racialDetails: groups 1 (size), 2 (type), 5 (alignment)
MatchRacialDetails(line) ==
  IF /\ Len(line) >= 2
     /\ line[1].c = "w" /\ line[1].s \in Sizes
     /\ line[2].c = "w" /\ line[2].s \in CreatureTypes
  THEN LET pc0 == ParenClose(line, 3)
           j == IF pc0 > 0 THEN pc0 + 1 ELSE 3
           A == {a \in 1..Len(Alignments) : AltAt(line, j + 1, Alignments[a])}
       IN IF j <= Len(line) /\ IsP(line[j], ",") /\ A # {}
          THEN [ok |-> TRUE, g1 |-> <<line[1]>>, g2 |-> <<line[2]>>,
                g5 |-> LET a == CHOOSE a \in A : \A b \in A : a <= b
                       IN SubSeq(line, j + 1, j + Len(Alignments[a]))]
          ELSE NoMatch
  ELSE NoMatch

\* #regex.armor  /^armor\s+class\s+(\d+)(?:\s+\(([^\)]+)\))?/i
\* g2 is the empty text when the optional group did not take part
MatchArmor(line) ==
  IF StartsWithWords(line, <<"armor", "class">>) /\ Len(line) >= 3 /\ IsNum(line[3])
  THEN [ok |-> TRUE, g1 |-> line[3].k,
        g2 |-> IF ParenClose(line, 4) > 0 THEN ParenText(line, 4) ELSE <<>>]
  ELSE NoMatch

\* #regex.health  /^hit\s+points\s+(\d+)\s*\(([^\)]+)\)/i
MatchHealth(line) ==
  IF /\ StartsWithWords(line, <<"hit", "points">>) /\ Len(line) >= 3
     /\ IsNum(line[3]) /\ ParenClose(line, 4) > 0
  THEN [ok |-> TRUE, g1 |-> line[3].k, g2 |-> ParenText(line, 4)]
  ELSE NoMatch

\* a blank stands before every word and number, and before an opening
\* parenthesis or a sign; other punctuation follows its neighbour directly
SpaceBefore(t) == t.c # "p" \/ t.s \in {"(", "+", "-"}

\* /^<words>\s+(.+)/i : speed, savingThrows, skills, damage*, condition*,
\* immunities2024, senses, languages
MatchKeyed(line, ws) ==
  IF StartsWithWords(line, ws) /\ Len(line) > Len(ws) /\ SpaceBefore(line[Len(ws) + 1])
  THEN [ok |-> TRUE, g1 |-> SubSeq(line, Len(ws) + 1, Len(line))]
  ELSE NoMatch

\* #regex.abilities  /^(str|dex|con|int|wis|cha)\s+(\d+)\s*\(([-+]\d+)\)/i
MatchAbilities(line) ==
  IF /\ Len(line) >= 6
     /\ line[1].c = "w" /\ line[1].s \in AbilityIds
     /\ IsNum(line[2]) /\ IsP(line[3], "(")
     /\ (IsP(line[4], "+") \/ IsP(line[4], "-"))
     /\ IsNum(line[5]) /\ IsP(line[6], ")")
  THEN [ok |-> TRUE, g1 |-> line[1].s, g2 |-> line[2].k]
  ELSE NoMatch

\* #regex.challenge  /^challenge\s+(\d+\/\d+|\d+)\s*\(([^\)]+)\s*\)/i
\* g1 is the CR text: its numerator, whether it has a slash, its denominator
MatchChallenge(line) ==
  IF StartsWithWords(line, <<"challenge">>) /\ Len(line) >= 2 /\ IsNum(line[2])
  THEN IF Len(line) >= 4 /\ IsP(line[3], "/") /\ IsNum(line[4])
       THEN IF ParenClose(line, 5) > 0
            THEN [ok |-> TRUE, slash |-> TRUE, num |-> line[2].k,
                  den |-> line[4].k, g2 |-> ParenText(line, 5)]
            ELSE NoMatch
       ELSE IF ParenClose(line, 3) > 0
            THEN [ok |-> TRUE, slash |-> FALSE, num |-> line[2].k,
                  den |-> 1, g2 |-> ParenText(line, 3)]
            ELSE NoMatch
  ELSE NoMatch

\* /^actions$/i and the other section headers: the whole line is the words
MatchExact(line, ws) ==
  /\ Len(line) = Len(ws)
  /\ \A j \in 1..Len(ws) : IsWord(line[j], ws[j])

(***************************************************************************)
(* monsterParser.Blocks and the line tagger                                *)
(***************************************************************************)

\* Object.keys(this.Blocks) without "name", "features" and "otherBlock"
BlockOrder ==
  <<"abilities", "actions", "armor", "bonusActions", "challenge",
    "conditionImmunities", "damageImmunities", "immunities2024",
    "damageResistances", "damageVulnerabilities", "gear", "health",
    "initiative", "lairActions", "languages", "legendaryActions",
    "mythicActions", "proficiencyBonus", "racialDetails", "reactions",
    "savingThrows", "senses", "skills", "souls", "speed", "traits",
    "utilitySpells", "villainActions">>

BlockIds == {BlockOrder[j] : j \in 1..Len(BlockOrder)} \cup {"features", "otherBlock"}

\* the blocks declared with top: true
TopBlocks ==
  {"abilities", "armor", "challenge", "conditionImmunities", "damageImmunities",
   "immunities2024", "damageResistances", "damageVulnerabilities", "gear",
   "health", "initiative", "languages", "proficiencyBonus", "racialDetails",
   "savingThrows", "senses", "skills", "souls", "speed"}

\* this.Blocks[match]?.top, read as a condition (undefined is false)
IsTop(b) == b \in TopBlocks

\* line.match(this.#regex[b]); false for a block that has no pattern
RegexMatches(b, line) ==
  CASE b = "racialDetails" -> MatchRacialDetails(line).ok
    [] b = "armor" -> MatchArmor(line).ok
    [] b = "health" -> MatchHealth(line).ok
    [] b = "speed" -> MatchKeyed(line, <<"speed">>).ok
    [] b = "abilities" -> MatchAbilities(line).ok
    [] b = "savingThrows" -> MatchKeyed(line, <<"saving", "throws">>).ok
    [] b = "skills" -> MatchKeyed(line, <<"skills">>).ok
    [] b = "damageVulnerabilities" -> MatchKeyed(line, <<"damage", "vulnerabilities">>).ok
    [] b = "damageResistances" -> MatchKeyed(line, <<"damage", "resistances">>).ok
    [] b = "damageImmunities" -> MatchKeyed(line, <<"damage", "immunities">>).ok
    [] b = "conditionImmunities" -> MatchKeyed(line, <<"condition", "immunities">>).ok
    [] b = "immunities2024" -> MatchKeyed(line, <<"immunities">>).ok
    [] b = "senses" -> MatchKeyed(line, <<"senses">>).ok
    [] b = "languages" -> MatchKeyed(line, <<"languages">>).ok
    [] b = "challenge" -> MatchChallenge(line).ok
    [] b = "actions" -> MatchExact(line, <<"actions">>)
    [] b = "bonusActions" -> MatchExact(line, <<"bonus", "actions">>)
    [] b = "reactions" -> MatchExact(line, <<"reactions">>)
    [] b = "legendaryActions" -> MatchExact(line, <<"legendary", "actions">>)
    [] b = "lairActions" -> MatchExact(line, <<"lair", "actions">>)
    [] b = "mythicActions" -> MatchExact(line, <<"mythic", "actions">>)
    [] b = "villainActions" -> MatchExact(line, <<"villain", "actions">>)
    [] OTHER -> FALSE

\* _getFirstMatch(line, excludeIds): the first block of BlockOrder that is
\* not excluded and whose pattern matches, None when there is none
GetFirstMatch(line, excludeIds) ==
  LET S == {j \in 1..Len(BlockOrder) :
              /\ BlockOrder[j] \notin excludeIds
              /\ RegexMatches(BlockOrder[j], line)}
  IN IF S = {} THEN None
     ELSE BlockOrder[CHOOSE j \in S : \A q \in S : j <= q]

\* blocks.set(id, []) / blocks.has(id) || blocks.set(id, [])
SetEmpty(bl, id) == [b \in DOMAIN bl \cup {id} |-> IF b = id THEN <<>> ELSE bl[b]]
Ensure(bl, id) == IF id \in DOMAIN bl THEN bl ELSE SetEmpty(bl, id)

TagInit ==
  [blocks |-> <<>>, currentBlockId |-> None,
   foundTopBlock |-> TRUE, foundAbilityLine |-> FALSE]

\* Handle features block
FeaturesStep(st, match, line) ==
  IF ~(match # None) /\ st.foundTopBlock /\ BlockTitle(line)
  THEN [st EXCEPT !.foundTopBlock = FALSE,
                  !.currentBlockId = "features",
                  !.blocks = SetEmpty(st.blocks, "features")]
  ELSE st

\* Handle other blocks
OtherStep(st, match, line) ==
  IF ~(match # None) /\ ~st.foundAbilityLine /\ OtherBlock(line)
  THEN [st EXCEPT !.foundTopBlock = FALSE,
                  !.currentBlockId = "otherBlock",
                  !.blocks = Ensure(st.blocks, "otherBlock")]
  ELSE st

\* if (match) foundTopBlock = this.Blocks[match]?.top
TopStep(st, match) ==
  IF match # None THEN [st EXCEPT !.foundTopBlock = IsTop(match)] ELSE st

\* Turn off foundAbilityLine when we hit the next block
AbilityOffStep(st, match) ==
  IF match # None /\ st.foundAbilityLine /\ match # "abilities"
  THEN [st EXCEPT !.foundAbilityLine = FALSE]
  ELSE st

\* if (match && !foundAbilityLine): the matched block becomes the current one
SwitchStep(st, match) ==
  IF match # None /\ ~st.foundAbilityLine
  THEN [st EXCEPT !.currentBlockId = match,
                  !.blocks = Ensure(st.blocks, match),
                  !.foundAbilityLine = (match = "abilities")]
  ELSE st

\* if (blocks.has(currentBlockId)) blocks.get(currentBlockId).push(...)
PushStep(st, line, i) ==
  IF st.currentBlockId \in DOMAIN st.blocks
  THEN [st EXCEPT !.blocks[st.currentBlockId] =
                     Append(@, [lineNumber |-> i, line |-> line])]
  ELSE st

\* a variant of the loop body that never turns foundAbilityLine off
TagMatched_NoAbilityReset(st, match, line, i) ==
  PushStep(
    SwitchStep(
      TopStep(
        OtherStep(FeaturesStep(st, match, line), match, line),
        match),
      match),
    line, i)

\* a variant of the loop body that pushes the line before it looks at the match
TagMatched_PushFirst(st, match, line, i) ==
  SwitchStep(
    AbilityOffStep(
      TopStep(
        OtherStep(FeaturesStep(PushStep(st, line, i), match, line), match, line),
        match),
      match),
    match)

\* the loop body once the line is known to be neither blank nor a note
TagMatched(st, match, line, i) ==
  PushStep(
    SwitchStep(
      AbilityOffStep(
        TopStep(
          OtherStep(FeaturesStep(st, match, line), match, line),
          match),
        match),
      match),
    line, i)

\* a variant of the iteration that passes over blank lines only
TagStep_NotesKept(st, line, i) ==
  IF line = <<>> THEN st
  ELSE TagMatched(st, GetFirstMatch(line, DOMAIN st.blocks), line, i)

\* one iteration of the loop of _parseIntoBlocks on lines[i] (i counts from 0)
TagStep(st, line, i) ==
  IF line = <<>> \/ IsP(line[1], "*") THEN st
  ELSE TagMatched(st, GetFirstMatch(line, DOMAIN st.blocks), line, i)

\* _parseIntoBlocks(lines): the state after the first n lines
RECURSIVE TagUpTo(_, _)
TagUpTo(lines, n) ==
  IF n = 0 THEN TagInit ELSE TagStep(TagUpTo(lines, n - 1), lines[n], n - 1)

ParseIntoBlocks(lines) == TagUpTo(lines, Len(lines)).blocks

(***************************************************************************)
(* Field extractors.  A string is a token sequence, "" is <<>>.            *)
(***************************************************************************)

\* !x || !x.length for x = blocks.get(id)
Absent(bl, id) == id \notin DOMAIN bl \/ Len(bl[id]) = 0

FirstLine(bl, id) == bl[id][1].line

\* text.split(","): the pieces between the commas
RECURSIVE SplitComma(_)
SplitComma(toks) ==
  LET q == FirstCharFrom(toks, ",", 1)
  IN IF q = 0 THEN <<toks>>
     ELSE <<SubSeq(toks, 1, q - 1)>> \o SplitComma(SubSeq(toks, q + 1, Len(toks)))

\* (?:ft\.?|feet)?$ : nothing, "ft", "ft." or "feet" ends the piece
IsUnitEnd(rest) ==
  \/ rest = <<>>
  \/ Len(rest) = 1 /\ (IsWord(rest[1], "ft") \/ IsWord(rest[1], "feet"))
  \/ Len(rest) = 2 /\ IsWord(rest[1], "ft") /\ IsP(rest[2], ".")

Rest(seg, from) == SubSeq(seg, from, Len(seg))

ExtractType(bl) ==
  IF Absent(bl, "racialDetails") THEN <<>>
  ELSE LET m == MatchRacialDetails(FirstLine(bl, "racialDetails"))
       IN IF ~m.ok THEN <<>> ELSE ToLower(m.g2)

ExtractSize(bl) ==
  IF Absent(bl, "racialDetails") THEN <<>>
  ELSE LET m == MatchRacialDetails(FirstLine(bl, "racialDetails"))
       IN IF ~m.ok THEN <<>> ELSE ToLower(m.g1)

ExtractAlignment(bl) ==
  IF Absent(bl, "racialDetails") THEN <<>>
  ELSE LET m == MatchRacialDetails(FirstLine(bl, "racialDetails"))
       IN IF ~m.ok THEN <<>> ELSE ToLower(m.g5)

ExtractAC(bl) ==
  IF Absent(bl, "armor") THEN [value |-> 10, formula |-> <<>>]
  ELSE LET m == MatchArmor(FirstLine(bl, "armor"))
       IN IF ~m.ok THEN [value |-> 10, formula |-> <<>>]
          ELSE [value |-> m.g1, formula |-> m.g2]

ExtractHP(bl) ==
  IF Absent(bl, "health") THEN [value |-> 0, formula |-> <<>>]
  ELSE LET m == MatchHealth(FirstLine(bl, "health"))
       IN IF ~m.ok THEN [value |-> 0, formula |-> <<>>]
          ELSE [value |-> m.g1, formula |-> m.g2]

\* /^(?:(\w+)\s+)?([\d]+)\s*(?:ft\.?|feet)?$/i on one piece of the speed text
SpeedPiece(seg) ==
  IF Len(seg) >= 2 /\ IsWordChar(seg[1]) /\ IsNum(seg[2]) /\ IsUnitEnd(Rest(seg, 3))
  THEN <<[type |-> ToLower(<<seg[1]>>), value |-> seg[2].k]>>
  ELSE IF Len(seg) >= 1 /\ IsNum(seg[1]) /\ IsUnitEnd(Rest(seg, 2))
       THEN <<[type |-> <<Lo("walk")>>, value |-> seg[1].k]>>
       ELSE <<>>

\* the results of f on the pieces, in order (f gives <<>> or one element)
RECURSIVE FlatMap(_, _)
FlatMap(f(_), segs) ==
  IF segs = <<>> THEN <<>> ELSE f(Head(segs)) \o FlatMap(f, Tail(segs))

ExtractSpeed(bl) ==
  IF Absent(bl, "speed") THEN <<>>
  ELSE LET m == MatchKeyed(FirstLine(bl, "speed"), <<"speed">>)
       IN IF ~m.ok THEN <<>> ELSE FlatMap(SpeedPiece, SplitComma(m.g1))

\* abilityScores[abilityType] = score for every matching line of the buffer
RECURSIVE AbilityFold(_, _)
AbilityFold(buf, n) ==
  IF n = 0 THEN <<>>
  ELSE LET acc == AbilityFold(buf, n - 1)
           m == MatchAbilities(buf[n].line)
       IN IF m.ok
          THEN [a \in DOMAIN acc \cup {m.g1} |-> IF a = m.g1 THEN m.g2 ELSE acc[a]]
          ELSE acc

\* a variant that reads the first line of the buffer only
ExtractAbilities_FirstLineOnly(bl) ==
  IF Absent(bl, "abilities") THEN <<>>
  ELSE AbilityFold(bl["abilities"], 1)

ExtractAbilities(bl) ==
  IF Absent(bl, "abilities") THEN <<>>
  ELSE AbilityFold(bl["abilities"], Len(bl["abilities"]))

Signed(sign, k) == IF IsP(sign, "-") THEN 0 - k ELSE k
IsSign(t) == IsP(t, "+") \/ IsP(t, "-")

\* /^(\w{3})\s+([+-]\d+)$/i
SavePiece(seg) ==
  IF /\ Len(seg) = 3 /\ IsWordChar(seg[1]) /\ TokChars(seg[1]) = 3
     /\ IsSign(seg[2]) /\ IsNum(seg[3])
  THEN <<[ability |-> ToLower(<<seg[1]>>), bonus |-> Signed(seg[2], seg[3].k)]>>
  ELSE <<>>

ExtractSavingThrows(bl) ==
  IF Absent(bl, "savingThrows") THEN <<>>
  ELSE LET m == MatchKeyed(FirstLine(bl, "savingThrows"), <<"saving", "throws">>)
       IN IF ~m.ok THEN <<>> ELSE FlatMap(SavePiece, SplitComma(m.g1))

\* /^([\w\s]+)\s+([+-]\d+)$/i
SkillPiece(seg) ==
  LET n == Len(seg)
  IN IF /\ n >= 3 /\ IsSign(seg[n - 1]) /\ IsNum(seg[n])
        /\ \A j \in 1..(n - 2) : IsWordChar(seg[j])
     THEN <<[name |-> SubSeq(seg, 1, n - 2), bonus |-> Signed(seg[n - 1], seg[n].k)]>>
     ELSE <<>>

ExtractSkills(bl) ==
  IF Absent(bl, "skills") THEN <<>>
  ELSE LET m == MatchKeyed(FirstLine(bl, "skills"), <<"skills">>)
       IN IF ~m.ok THEN <<>> ELSE FlatMap(SkillPiece, SplitComma(m.g1))

LowerPiece(seg) == <<ToLower(seg)>>

\* regexMap[blockId] of _extractDamageCondition
DamageWords(blockId) ==
  CASE blockId = "damageVulnerabilities" -> <<"damage", "vulnerabilities">>
    [] blockId = "damageResistances" -> <<"damage", "resistances">>
    [] blockId = "damageImmunities" -> <<"damage", "immunities">>
    [] blockId = "conditionImmunities" -> <<"condition", "immunities">>
    [] blockId = "immunities2024" -> <<"immunities">>

ExtractDamageCondition(bl, blockId) ==
  IF Absent(bl, blockId) THEN <<>>
  ELSE LET m == MatchKeyed(FirstLine(bl, blockId), DamageWords(blockId))
       IN IF ~m.ok THEN <<>> ELSE FlatMap(LowerPiece, SplitComma(m.g1))

\* the index of the range number of /^([\w\s]+)\s+([\d]+)\s*(?:ft\.?|feet)?$/i,
\* 0 when the piece does not match
SenseRangeAt(seg) ==
  LET S == {j \in 2..Len(seg) :
              /\ IsNum(seg[j]) /\ IsUnitEnd(Rest(seg, j + 1))
              /\ \A q \in 1..(j - 1) : IsWordChar(seg[q])}
  IN IF S = {} THEN 0 ELSE CHOOSE j \in S : \A q \in S : j >= q

\* a sense with a range has special FALSE, a special sense has range 0
SensePiece(seg) ==
  LET j == SenseRangeAt(seg)
  IN IF j > 0
     THEN <<[type |-> ToLower(SubSeq(seg, 1, j - 1)), range |-> seg[j].k,
             special |-> FALSE]>>
     ELSE <<[type |-> ToLower(seg), range |-> 0, special |-> TRUE]>>

ExtractSenses(bl) ==
  IF Absent(bl, "senses") THEN <<>>
  ELSE LET m == MatchKeyed(FirstLine(bl, "senses"), <<"senses">>)
       IN IF ~m.ok THEN <<>> ELSE FlatMap(SensePiece, SplitComma(m.g1))

SamePiece(seg) == <<seg>>

ExtractLanguages(bl) ==
  IF Absent(bl, "languages") THEN <<>>
  ELSE LET m == MatchKeyed(FirstLine(bl, "languages"), <<"languages">>)
       IN IF ~m.ok THEN <<>> ELSE FlatMap(SamePiece, SplitComma(m.g1))

RECURSIVE Gcd(_, _)
Gcd(a, b) == IF b = 0 THEN a ELSE Gcd(b, a % b)

\* a JavaScript number that is a quotient of two naturals: the fraction in
\* lowest terms, or Infinity (n / 0, n > 0), or NaN (0 / 0)
Quotient(n, d) ==
  IF d = 0
  THEN IF n = 0 THEN [kind |-> "NaN", n |-> 0, d |-> 0]
       ELSE [kind |-> "Infinity", n |-> 1, d |-> 0]
  ELSE [kind |-> "finite", n |-> n \div Gcd(n, d), d |-> d \div Gcd(n, d)]

Whole(n) == [kind |-> "finite", n |-> n, d |-> 1]

\* the digits of /(\d+(?:,\d+)*)/ from the number at position j on, the
\* commas taken out: "1,800" is read as 1800
RECURSIVE GroupedDigits(_, _, _)
GroupedDigits(toks, j, acc) ==
  IF j + 2 <= Len(toks) /\ IsP(toks[j + 1], ",") /\ IsNum(toks[j + 2])
  THEN GroupedDigits(toks, j + 2, acc * Pow10(Digits(toks[j + 2].k)) + toks[j + 2].k)
  ELSE acc

ParseXp(toks) ==
  LET S == {j \in 1..Len(toks) : IsNum(toks[j])}
  IN IF S = {} THEN 0
     ELSE LET j == CHOOSE j \in S : \A q \in S : j <= q
          IN GroupedDigits(toks, j, toks[j].k)

ExtractChallenge(bl) ==
  IF Absent(bl, "challenge") THEN [cr |-> Whole(0), xp |-> 0]
  ELSE LET m == MatchChallenge(FirstLine(bl, "challenge"))
       IN IF ~m.ok THEN [cr |-> Whole(0), xp |-> 0]
          ELSE [cr |-> IF m.slash THEN Quotient(m.num, m.den) ELSE Whole(m.num),
                xp |-> ParseXp(m.g2)]

\* line.match(/^([^.]+)\.(.*)/i): the index of the first period when at least
\* one character stands before it, 0 when the line does not match
TitleDot(line) ==
  LET d == FirstCharFrom(line, ".", 1) IN IF d > 1 THEN d ELSE 0

\* the loop of _extractNamedEntries over entries[1..] (the header skipped):
\* the state after the buffer's lines 2..n
RECURSIVE EntryFold(_, _)
EntryFold(buf, n) ==
  IF n <= 1 THEN [result |-> <<>>, has |-> FALSE, cur |-> [name |-> <<>>, description |-> <<>>]]
  ELSE LET acc == EntryFold(buf, n - 1)
           line == buf[n].line
           d == TitleDot(line)
       IN IF d > 0
          THEN [result |-> IF acc.has THEN Append(acc.result, acc.cur) ELSE acc.result,
                has |-> TRUE,
                cur |-> [name |-> SubSeq(line, 1, d - 1),
                         description |-> SubSeq(line, d + 1, Len(line))]]
          ELSE IF acc.has
               THEN [acc EXCEPT !.cur.description = @ \o line]
               ELSE acc

ExtractNamedEntries(bl, blockId) ==
  IF Absent(bl, blockId) THEN <<>>
  ELSE LET f == EntryFold(bl[blockId], Len(bl[blockId]))
       IN IF f.has THEN Append(f.result, f.cur) ELSE f.result

ExtractOtherInfo(bl) ==
  IF Absent(bl, "otherBlock") THEN <<>>
  ELSE [j \in 1..Len(bl["otherBlock"]) |-> bl["otherBlock"][j].line]

\* the record built by parseMonster
MonsterData(nm, bl) ==
  [name |-> nm,
   type |-> ExtractType(bl),
   size |-> ExtractSize(bl),
   alignment |-> ExtractAlignment(bl),
   ac |-> ExtractAC(bl),
   hp |-> ExtractHP(bl),
   speed |-> ExtractSpeed(bl),
   abilities |-> ExtractAbilities(bl),
   savingThrows |-> ExtractSavingThrows(bl),
   skills |-> ExtractSkills(bl),
   damageVulnerabilities |-> ExtractDamageCondition(bl, "damageVulnerabilities"),
   damageResistances |-> ExtractDamageCondition(bl, "damageResistances"),
   damageImmunities |-> ExtractDamageCondition(bl, "damageImmunities"),
   conditionImmunities |-> ExtractDamageCondition(bl, "conditionImmunities"),
   senses |-> ExtractSenses(bl),
   languages |-> ExtractLanguages(bl),
   challenge |-> ExtractChallenge(bl),
   features |-> ExtractNamedEntries(bl, "features"),
   actions |-> ExtractNamedEntries(bl, "actions"),
   bonusActions |-> ExtractNamedEntries(bl, "bonusActions"),
   reactions |-> ExtractNamedEntries(bl, "reactions"),
   legendaryActions |-> ExtractNamedEntries(bl, "legendaryActions"),
   lairActions |-> ExtractNamedEntries(bl, "lairActions"),
   mythicActions |-> ExtractNamedEntries(bl, "mythicActions"),
   villainActions |-> ExtractNamedEntries(bl, "villainActions"),
   otherInfo |-> ExtractOtherInfo(bl)]

(***************************************************************************)
(* _cleanInput and parseMonster                                            *)
(***************************************************************************)

\* the alternatives of #regex.removeNewLines, compared with case
HeaderWords ==
  {<<"hit", "points">>, <<"armor", "class">>, <<"speed">>, <<"saving", "throws">>,
   <<"skills">>, <<"damage", "vulnerabilities">>, <<"damage", "resistances">>,
   <<"damage", "immunities">>, <<"condition", "immunities">>, <<"immunities">>,
   <<"senses">>, <<"languages">>, <<"challenge">>}

\* the line ends with one of the headers, written as in the pattern
EndsWithHeader(line) ==
  \E h \in HeaderWords :
    /\ Len(line) >= Len(h)
    /\ \A j \in 1..Len(h) :
         LET t == line[Len(line) - Len(h) + j]
         IN t.c = "w" /\ t.s = h[j] /\ t.cs = "T"

Min2(a, b) == IF a <= b THEN a ELSE b

RECURSIVE DropBlank(_)
DropBlank(ls) ==
  IF ls # <<>> /\ Head(ls) = <<>> THEN DropBlank(Tail(ls)) ELSE ls

\* cleaned.replace(removeNewLines, "$<header> ") on the lines of the text: a
\* header at the end of a line, the blanks and line ends after it, are replaced
\* by the header and one blank, which joins the next non-blank line to it
RECURSIVE CleanInput(_)
CleanInput(ls) ==
  IF ls = <<>> THEN <<>>
  ELSE IF Len(ls) >= 2 /\ EndsWithHeader(Head(ls))
       THEN LET rest == DropBlank(Tail(ls))
            IN IF rest = <<>> THEN <<Head(ls)>>
               ELSE CleanInput(<<Head(ls) \o Head(rest)>> \o Tail(rest))
       ELSE <<Head(ls)>> \o CleanInput(Tail(ls))

\* the lines before the last line that end with a header
HeaderLines(ls) == {j \in 1..(Len(ls) - 1) : EndsWithHeader(ls[j])}

\* a variant that uses the regular expression as one call of exec does: the
\* search starts at lastIndex, and lastIndex stays behind the last match
ReplaceGlobal_Sticky(ls, lastIndex) ==
  [text |-> SubSeq(ls, 1, Min2(lastIndex, Len(ls)))
              \o CleanInput(SubSeq(ls, Min2(lastIndex, Len(ls)) + 1, Len(ls))),
   lastIndex |-> IF HeaderLines(ls) = {} THEN 0
                 ELSE CHOOSE j \in HeaderLines(ls) : \A q \in HeaderLines(ls) : q <= j]

\* cleaned.replace(this.#regex.removeNewLines, "$<header> "): the regular
\* expression is global and static, so its lastIndex outlives the call.
\* lastIndex counts the lines before its offset.  replace sets it to 0
\* before the first search and the search that fails leaves it at 0.
ReplaceGlobal(ls, lastIndex) == [text |-> CleanInput(ls), lastIndex |-> 0]

\* a variant without the filter: blank lines stay in the list
NonBlank_NoFilter(ls) == ls

\* .map(line => line.trim()).filter(line => line.length > 0)
RECURSIVE NonBlank(_)
NonBlank(ls) ==
  IF ls = <<>> THEN <<>>
  ELSE IF Head(ls) = <<>> THEN NonBlank(Tail(ls))
       ELSE <<Head(ls)>> \o NonBlank(Tail(ls))

(***************************************************************************)
(* contentDetector.  A text is the sequence of its lines; a rule line is   *)
(* one punctuation token of dashes or underscores, a page number line one  *)
(* number token, a bullet line the token "bullet".  Lines hold no blanks   *)
(* at their ends, so a blank line is empty.  Two words are always apart by *)
(* white space; where punctuation stands, GapBefore tells the white space. *)
(***************************************************************************)

\* the text k occurs in the word w; w begins, ends with k
Has(w, k) == \E p \in 1..(Len(w) - Len(k) + 1) : SubSeq(w, p, p + Len(k) - 1) = k
StartsWith(w, k) == Len(w) >= Len(k) /\ SubSeq(w, 1, Len(k)) = k
EndsWith(w, k) == Len(w) >= Len(k) /\ SubSeq(w, Len(w) - Len(k) + 1, Len(w)) = k

Letters ==
  {"a", "b", "c", "d", "e", "f", "g", "h", "i", "j", "k", "l", "m", "n", "o", "p", "q",
   "r", "s", "t", "u", "v", "w", "x", "y", "z"}
DigitChars == {"0", "1", "2", "3", "4", "5", "6", "7", "8", "9"}

\* every character of the word is in the set
AllIn(w, S) == \A p \in 1..Len(w) : SubSeq(w, p, p) \in S

\* a hyphen between two words joins them: no blank stands around it
Joins(l, q) ==
  /\ q > 1 /\ q < Len(l) /\ IsP(l[q], "-")
  /\ l[q - 1].c = "w" /\ l[q + 1].c = "w"

\* the white space before the q-th token of a line: "nl" at the head of the
\* line, "sp" one blank, "no" none.  A number follows its sign, a slash and
\* the comma of a grouped number directly.
GapBefore(l, q) ==
  IF q = 1 THEN "nl"
  ELSE IF Joins(l, q) \/ Joins(l, q - 1) THEN "no"
  ELSE IF ~SpaceBefore(l[q]) THEN "no"
  ELSE IF IsP(l[q - 1], "(") \/ IsP(l[q - 1], "/") THEN "no"
  ELSE IF IsNum(l[q]) /\ (IsP(l[q - 1], "+") \/ IsP(l[q - 1], "-")) THEN "no"
  ELSE IF IsNum(l[q]) /\ q > 2 /\ IsP(l[q - 1], ",") /\ IsNum(l[q - 2]) THEN "no"
  ELSE "sp"

White(gap) == gap \in {"sp", "nl", "bl"}

\* the tokens of the lines from line j on in reading order, each with the
\* white space before it; "bl" when blank lines stand before the token
RECURSIVE StreamFrom(_, _, _)
StreamFrom(ls, j, gap) ==
  IF j > Len(ls) THEN <<>>
  ELSE IF ls[j] = <<>> THEN StreamFrom(ls, j + 1, "bl")
  ELSE [q \in 1..Len(ls[j]) |->
          [t |-> ls[j][q], gap |-> IF q = 1 THEN gap ELSE GapBefore(ls[j], q)]]
       \o StreamFrom(ls, j + 1, "nl")

Stream(ls) == StreamFrom(ls, 1, "nl")

\* number of characters of a token: a rule is as long as it is written
TokLength(t) ==
  IF t.c = "p" /\ t.s # "bullet" THEN Len(t.s) ELSE TokChars(t)

\* number of characters of a line and of a text
RECURSIVE LineChars(_, _)
LineChars(l, n) ==
  IF n = 0 THEN 0
  ELSE LineChars(l, n - 1) + TokLength(l[n]) + (IF GapBefore(l, n) = "sp" THEN 1 ELSE 0)

RECURSIVE TextChars(_)
TextChars(ls) ==
  IF ls = <<>> THEN 0
  ELSE LineChars(Head(ls), Len(Head(ls))) + (IF Len(ls) > 1 THEN 1 ELSE 0)
       + TextChars(Tail(ls))

\* String.prototype.trim on a text: the blank lines at its ends go
RECURSIVE DropBlankEnd(_)
DropBlankEnd(ls) ==
  IF ls # <<>> /\ ls[Len(ls)] = <<>> THEN DropBlankEnd(SubSeq(ls, 1, Len(ls) - 1)) ELSE ls

Trim(ls) == DropBlankEnd(DropBlank(ls))

(***************************************************************************)
(* _splitIntoBlocks                                                        *)
(***************************************************************************)

\* the marker line that _splitIntoBlocks writes for a separator
Separator == <<P("###BLOCK_SEPARATOR###")>>

\* [-_]{3,} on a line of its own
IsRuleLine(l) ==
  Len(l) = 1 /\ l[1].c = "p" /\ Len(l[1].s) >= 3 /\ AllIn(l[1].s, {"-", "_"})

\* [\s]*\d+[\s]* on a line of its own
IsPageLine(l) == Len(l) = 1 /\ IsNum(l[1])

\* [\s]*•[\s]* on a line of its own
IsBulletLine(l) == l = <<P("bullet")>>

IsLone(kind, l) == IF kind = "page" THEN IsPageLine(l) ELSE IsBulletLine(l)

\* index of the last line of the run of blank lines that starts at line a
RECURSIVE BlankRunEnd(_, _)
BlankRunEnd(ls, a) ==
  IF a < Len(ls) /\ ls[a + 1] = <<>> THEN BlankRunEnd(ls, a + 1) ELSE a

\* replace(/\n{3,}/g, marker): from line j on; a run of two or more blank
\* lines that has a line before it and a line after it becomes the marker
RECURSIVE ReplaceBlankRuns(_, _)
ReplaceBlankRuns(ls, j) ==
  IF j > Len(ls) THEN <<>>
  ELSE IF j >= 2 /\ ls[j] = <<>> /\ Min2(BlankRunEnd(ls, j), Len(ls) - 1) > j
       THEN <<Separator>> \o ReplaceBlankRuns(ls, Min2(BlankRunEnd(ls, j), Len(ls) - 1) + 1)
       ELSE <<ls[j]>> \o ReplaceBlankRuns(ls, j + 1)

\* replace(/\n[-_]{3,}\n/g, marker): a rule line between two line ends
\* becomes the marker; free tells whether the line end before line j is
\* still there to be matched
RECURSIVE ReplaceRules(_, _, _)
ReplaceRules(ls, j, free) ==
  IF j > Len(ls) THEN <<>>
  ELSE IF free /\ j >= 2 /\ j < Len(ls) /\ IsRuleLine(ls[j])
       THEN <<Separator>> \o ReplaceRules(ls, j + 1, FALSE)
       ELSE <<ls[j]>> \o ReplaceRules(ls, j + 1, TRUE)

\* index of the first line at or after j that is not blank, Len(ls) + 1
\* when there is none
RECURSIVE NextNonBlank(_, _)
NextNonBlank(ls, j) ==
  IF j <= Len(ls) /\ ls[j] = <<>> THEN NextNonBlank(ls, j + 1) ELSE j

\* replace(/\n[\s]*\d+[\s]*\n/g, marker) and replace(/\n[\s]*•[\s]*\n/g,
\* marker): the blank lines before a lone line of the kind (from the second
\* line on), the line and the blank lines after it, up to the last line end,
\* become the marker
RECURSIVE ReplaceLone(_, _, _, _)
ReplaceLone(ls, j, free, kind) ==
  IF j > Len(ls) THEN <<>>
  ELSE IF /\ free /\ j >= 2
          /\ NextNonBlank(ls, j) < Len(ls)
          /\ IsLone(kind, ls[NextNonBlank(ls, j)])
       THEN <<Separator>>
              \o ReplaceLone(ls, Min2(NextNonBlank(ls, NextNonBlank(ls, j) + 1), Len(ls)),
                             FALSE, kind)
       ELSE <<ls[j]>> \o ReplaceLone(ls, j + 1, TRUE, kind)

\* processedText.split(marker): the chunks between the marker lines; the
\* line ends around a marker stay, as a blank line at the end of the chunk
\* before it and at the head of the chunk after it
RECURSIVE SplitAtSeparators(_, _, _)
SplitAtSeparators(ls, j, cur) ==
  IF j > Len(ls) THEN <<cur>>
  ELSE IF ls[j] = Separator
       THEN <<Append(cur, <<>>)>> \o SplitAtSeparators(ls, j + 1, << <<>> >>)
       ELSE SplitAtSeparators(ls, j + 1, Append(cur, ls[j]))

(***************************************************************************)
(* _looksLikeBlockStart and _refineBlocks                                  *)
(***************************************************************************)

\* some word of the text holds the key (a pattern /key/i without anchors)
HasKey(st, key) == \E q \in 1..Len(st) : st[q].t.c = "w" /\ Has(st[q].t.s, key)
HasAnyKey(st, keys) == \E key \in keys : HasKey(st, key)

\* /first second/i : a word that ends with first, one blank, a word that
\* begins with second
HasPair(st, first, second) ==
  \E q \in 1..(Len(st) - 1) :
    /\ st[q].t.c = "w" /\ EndsWith(st[q].t.s, first)
    /\ st[q + 1].t.c = "w" /\ StartsWith(st[q + 1].t.s, second)
    /\ st[q + 1].gap = "sp"

\* /(?:a|b)\s+(?:c|d)/i : a word that ends with one of firsts, white space,
\* a word that begins with one of seconds
HasSpaced(st, firsts, seconds) ==
  \E q \in 1..(Len(st) - 1) :
    /\ st[q].t.c = "w" /\ \E a \in firsts : EndsWith(st[q].t.s, a)
    /\ st[q + 1].t.c = "w" /\ \E b \in seconds : StartsWith(st[q + 1].t.s, b)
    /\ White(st[q + 1].gap)

Schools ==
  {"abjuration", "conjuration", "divination", "enchantment", "evocation", "illusion",
   "necromancy", "transmutation"}
StartKeys == {"spell", "cantrip", "item", "weapon", "armor", "monster", "feat"}
StartKinds == {"armor", "weapon", "ring", "rod", "staff", "wand", "potion", "scroll"}
Rarities == {"uncommon", "common", "rare", "legendary", "artifact"}
Ordinals == {"st", "nd", "rd", "th"}

\* \d+(?:st|nd|rd|th) at the end of a word
EndsAsOrdinal(w) ==
  \E o \in Ordinals :
    /\ EndsWith(w, o) /\ Len(w) >= 3
    /\ SubSeq(w, Len(w) - 2, Len(w) - 2) \in DigitChars

\* /^[A-Z][A-Z\s]+$/
IsAllCapsLine(l) ==
  /\ l # <<>>
  /\ \A q \in 1..Len(l) :
       /\ l[q].c = "w" /\ AllIn(l[q].s, Letters)
       /\ l[q].cs = "A" \/ (l[q].cs = "T" /\ Len(l[q].s) = 1)
  /\ LineChars(l, Len(l)) >= 2

\* /^[A-Z][a-z]+(?:\s+[A-Z][a-z]+)*$/
IsTitleCaseLine(l) ==
  /\ l # <<>>
  /\ \A q \in 1..Len(l) :
       l[q].c = "w" /\ l[q].cs = "T" /\ AllIn(l[q].s, Letters) /\ Len(l[q].s) >= 2

\* /(?:\d+(?:st|nd|rd|th)[-\s]level|cantrip)\s+(?:abjuration|...)/i
HasSpellLevelPhrase(st) ==
  \/ HasSpaced(st, {"cantrip"}, Schools)
  \/ \E q \in 1..(Len(st) - 2) :
       /\ st[q].t.c = "w" /\ EndsAsOrdinal(st[q].t.s)
       /\ IsWord(st[q + 1].t, "level") /\ st[q + 1].gap \in {"sp", "nl"}
       /\ st[q + 2].t.c = "w" /\ \E b \in Schools : StartsWith(st[q + 2].t.s, b)
       /\ White(st[q + 2].gap)
  \/ \E q \in 1..(Len(st) - 3) :
       /\ st[q].t.c = "w" /\ EndsAsOrdinal(st[q].t.s)
       /\ IsP(st[q + 1].t, "-") /\ st[q + 1].gap = "no"
       /\ IsWord(st[q + 2].t, "level") /\ st[q + 2].gap = "no"
       /\ st[q + 3].t.c = "w" /\ \E b \in Schools : StartsWith(st[q + 3].t.s, b)
       /\ White(st[q + 3].gap)

\* the kind of /(?:wondrous item|armor|...|scroll)\s*(?:,)?\s*(?:...)/i ends
\* with the q-th token
KindEndsAt(st, q) ==
  /\ st[q].t.c = "w"
  /\ \/ \E a \in StartKinds : EndsWith(st[q].t.s, a)
     \/ /\ st[q].t.s = "item" /\ q > 1 /\ st[q].gap = "sp"
        /\ st[q - 1].t.c = "w" /\ EndsWith(st[q - 1].t.s, "wondrous")

\* the rarity of that pattern begins with the r-th token
RarityBeginsAt(st, r) ==
  /\ r <= Len(st) /\ st[r].t.c = "w"
  /\ \/ \E b \in Rarities : StartsWith(st[r].t.s, b)
     \/ /\ st[r].t.s = "very" /\ r < Len(st) /\ st[r + 1].gap = "sp"
        /\ st[r + 1].t.c = "w" /\ StartsWith(st[r + 1].t.s, "rare")

HasItemRarityPhrase(st) ==
  \E q \in 1..Len(st) :
    /\ KindEndsAt(st, q)
    /\ \/ RarityBeginsAt(st, q + 1)
       \/ q < Len(st) /\ IsP(st[q + 1].t, ",") /\ RarityBeginsAt(st, q + 2)

\* /(?:tiny|...|gargantuan)\s+(?:aberration|...|undead)/i
HasCreaturePhrase(st) == HasSpaced(st, Sizes, CreatureTypes)

\* _looksLikeBlockStart(line, context)
LooksLikeBlockStart(line, context) ==
  \/ IsAllCapsLine(line) /\ HasAnyKey(Stream(context), StartKeys)
  \/ IsTitleCaseLine(line) /\ HasSpellLevelPhrase(Stream(context))
  \/ IsTitleCaseLine(line) /\ HasItemRarityPhrase(Stream(context))
  \/ IsTitleCaseLine(line) /\ HasCreaturePhrase(Stream(context))

\* lines.slice(i, i + 3) for i counted from 0
Context(ls, i) == SubSeq(ls, i + 1, Min2(i + 3, Len(ls)))

\* the blocks pushed so far with the current block pushed when it is not blank
Pushed(out, cur) == IF Trim(cur) # <<>> THEN Append(out, Trim(cur)) ELSE out

\* the loop of _refineBlocks over the lines of one chunk, from line i
\* (counted from 0): out are the blocks pushed, cur is currentBlock
RECURSIVE RefineFrom(_, _, _, _, _)
RefineFrom(ls, i, blockStart, cur, out) ==
  IF i >= Len(ls) THEN Pushed(out, cur)
  ELSE IF i > blockStart + 3 /\ LooksLikeBlockStart(ls[i + 1], Context(ls, i))
       THEN RefineFrom(ls, i + 1, i, <<ls[i + 1]>>, Pushed(out, cur))
       ELSE RefineFrom(ls, i + 1, blockStart, Append(cur, ls[i + 1]), out)

\* _refineBlocks(blocks); currentBlock starts as the empty text, to which
\* every line is added after a line end
RECURSIVE RefineBlocks(_)
RefineBlocks(chunks) ==
  IF chunks = <<>> THEN <<>>
  ELSE (IF Trim(Head(chunks)) = <<>> THEN <<>>
        ELSE RefineFrom(Head(chunks), 0, 0, << <<>> >>, <<>>))
       \o RefineBlocks(Tail(chunks))

\* _splitIntoBlocks(text) up to the call of _refineBlocks: the four
\* separators are replaced in turn, then the text is split at the marker
SeparatorChunks(text) ==
  SplitAtSeparators(
    ReplaceLone(
      ReplaceLone(ReplaceRules(ReplaceBlankRuns(text, 1), 1, TRUE), 1, TRUE, "page"),
      1, TRUE, "bullet"),
    1, <<>>)

\* _splitIntoBlocks(text)
SplitIntoBlocks(text) == RefineBlocks(SeparatorChunks(text))

(***************************************************************************)
(* _identifyBlockType.  The six block patterns have the shape              *)
(*   /^([\w\s'-]+)\s*(?:\r?\n)(<type>)\s*(?:\r?\n)/im                      *)
(* a run of name lines from the head of some line on, then the type group  *)
(* from the head of line a to the end of line e, a line end after it.      *)
(***************************************************************************)

\* a line of [\w\s'-]
IsNameLine(l) ==
  \A q \in 1..Len(l) :
    l[q].c \in {"w", "n"} \/ (l[q].c = "p" /\ AllIn(l[q].s, {"'", "-", "_"}))

\* ^([\w\s'-]+)\s*(?:\r?\n) ends with the line end before line a
NameBefore(b, a) ==
  \E q \in 1..(a - 1) :
    /\ \A r \in q..(a - 1) : IsNameLine(b[r])
    /\ a - q >= 2 \/ b[q] # <<>>

\* the tokens of the lines a..e of the block, where a type group can stand
TypeGroup(b, a, e) == Stream(SubSeq(b, a, e))

\* the spans of lines of a block where the type group of a pattern can
\* stand: lines that are not blank at both ends, a line after them
TypeSpans(b) ==
  {s \in (2..(Len(b) - 1)) \X (2..(Len(b) - 1)) :
     /\ s[1] <= s[2] /\ b[s[1]] # <<>> /\ b[s[2]] # <<>>
     /\ NameBefore(b, s[1])}

\* (?:\d+)(?:st|nd|rd|th) as a whole word
IsOrdinalWord(t) ==
  /\ t.c = "w" /\ Len(t.s) >= 3
  /\ \E o \in Ordinals : EndsWith(t.s, o)
  /\ AllIn(SubSeq(t.s, 1, Len(t.s) - 2), DigitChars)

\* ((?:\d+)(?:st|nd|rd|th))?[-\s]?  before the word at position p = a + h + 1:
\* a tells whether the ordinal is there, h whether the hyphen is
LevelPrefix(st, a, h) ==
  /\ a = 1 => IsOrdinalWord(st[1].t)
  /\ h = 1 => IsP(st[a + 1].t, "-") /\ (a = 1 => st[a + 1].gap = "no")

\* the word "level" after that prefix
LevelWord(st, a, h) ==
  /\ IsWord(st[a + h + 1].t, "level")
  /\ h = 1 => st[a + h + 1].gap = "no"
  /\ (a = 1 /\ h = 0) => st[a + h + 1].gap \in {"sp", "nl"}

\* \(ritual\) at position p
RitualAt(st, p) ==
  /\ IsP(st[p].t, "(")
  /\ IsWord(st[p + 1].t, "ritual") /\ st[p + 1].gap = "no"
  /\ IsP(st[p + 2].t, ")") /\ st[p + 2].gap = "no"

\* the type group of #spellBlockPattern:
\* ((\d+)(st|nd|rd|th))?[-\s]?(level)?\s*(school)\s*(spell|cantrip)?(\s*\(ritual\))?
SpellType(st) ==
  \E a \in 0..1, h \in 0..1, l \in 0..1, c \in 0..1, r \in {0, 3} :
    /\ Len(st) = a + h + l + 1 + c + r
    /\ LevelPrefix(st, a, h)
    /\ l = 1 => LevelWord(st, a, h)
    /\ st[a + h + l + 1].t.c = "w" /\ st[a + h + l + 1].t.s \in Schools
    /\ c = 1 => st[a + h + l + 2].t.c = "w" /\ st[a + h + l + 2].t.s \in {"spell", "cantrip"}
    /\ r = 3 => RitualAt(st, a + h + l + c + 2)

ItemKinds ==
  {"armor", "weapon", "ring", "rod", "staff", "wand", "potion", "scroll", "tool", "kit",
   "supplies", "instrument"}

\* (?:wondrous item|armor|...|instrument) in the tokens 1..k
ItemKindAt(st, k) ==
  /\ k = 1 => st[1].t.c = "w" /\ st[1].t.s \in ItemKinds
  /\ k = 2 => IsWord(st[1].t, "wondrous") /\ IsWord(st[2].t, "item") /\ st[2].gap = "sp"

\* \([\w\s]+\) in the tokens p + 1 .. p + n
WordParenAt(st, p, n) ==
  /\ IsP(st[p + 1].t, "(") /\ IsP(st[p + n].t, ")")
  /\ \A q \in (p + 2)..(p + n - 1) : st[q].t.c \in {"w", "n"}
  /\ n >= 3 \/ White(st[p + n].gap)

\* (?:uncommon|common|rare|very rare|legendary|artifact) in the tokens
\* p + 1 .. p + n
RarityAt(st, p, n) ==
  /\ n = 1 => st[p + 1].t.c = "w" /\ st[p + 1].t.s \in Rarities
  /\ n = 2 => IsWord(st[p + 1].t, "very") /\ IsWord(st[p + 2].t, "rare")
              /\ st[p + 2].gap = "sp"

\* the type group of #itemBlockPattern, every part of which may be missing:
\* (kind)?\s*(\([\w\s]+\))?\s*(,)?\s*(rarity)?
ItemType(st) ==
  \E k \in 0..2, n \in {0} \cup (2..Len(st)), c \in 0..1, r \in 0..2 :
    /\ Len(st) = k + n + c + r
    /\ ItemKindAt(st, k)
    /\ n > 0 => WordParenAt(st, k, n)
    /\ c = 1 => IsP(st[k + n + 1].t, ",")
    /\ RarityAt(st, k + n + c, r)

\* the alignments of #monsterBlockPattern
BlockAlignments ==
  {<<"unaligned">>, <<"lawful", "good">>, <<"neutral", "good">>, <<"chaotic", "good">>,
   <<"lawful", "neutral">>, <<"neutral">>, <<"chaotic", "neutral">>, <<"lawful", "evil">>,
   <<"neutral", "evil">>, <<"chaotic", "evil">>, <<"any", "alignment">>,
   <<"any", "non", "-", "good", "alignment">>, <<"any", "non", "-", "lawful", "alignment">>,
   <<"any", "chaotic", "alignment">>}

\* one of the alignments in the tokens p + 1 .. p + n, as it is written
AlignmentAt(st, p, n) ==
  \E al \in BlockAlignments :
    /\ Len(al) = n
    /\ \A q \in 1..n :
         /\ st[p + q].t.s = al[q]
         /\ st[p + q].t.c = (IF al[q] = "-" THEN "p" ELSE "w")
         /\ q > 1 => st[p + q].gap \in {"sp", "no"}

\* \([^\)]+\) in the tokens p + 1 .. p + n
AnyParenAt(st, p, n) ==
  /\ IsP(st[p + 1].t, "(") /\ IsP(st[p + n].t, ")")
  /\ \A q \in (p + 2)..(p + n - 1) : ~IsP(st[q].t, ")")
  /\ n >= 3 \/ White(st[p + n].gap)

\* the type group of #monsterBlockPattern:
\* (size)\s+(type)\s*(\([^\)]+\))?\s*(,)?\s*(alignment)?
MonsterType(st) ==
  \E n \in {0} \cup (2..Len(st)), c \in 0..1, al \in 0..5 :
    /\ Len(st) = 2 + n + c + al
    /\ st[1].t.c = "w" /\ st[1].t.s \in Sizes
    /\ st[2].t.c = "w" /\ st[2].t.s \in CreatureTypes
    /\ n > 0 => AnyParenAt(st, 2, n)
    /\ c = 1 => IsP(st[2 + n + 1].t, ",")
    /\ al > 0 => AlignmentAt(st, 2 + n + c, al)

\* the type group of #classFeaturePattern:
\* ((\d+)(st|nd|rd|th))?[-\s]?level\s*(feature|class feature)
ClassFeatureType(st) ==
  \E a \in 0..1, h \in 0..1, c \in 0..1 :
    /\ Len(st) = a + h + 1 + c + 1
    /\ LevelPrefix(st, a, h)
    /\ LevelWord(st, a, h)
    /\ c = 1 => IsWord(st[a + h + 2].t, "class") /\ st[a + h + 3].gap = "sp"
    /\ IsWord(st[a + h + c + 2].t, "feature")

\* the type group of #featPattern: (feat|prerequisite:)
FeatType(st) ==
  \/ Len(st) = 1 /\ IsWord(st[1].t, "feat")
  \/ Len(st) = 2 /\ IsWord(st[1].t, "prerequisite") /\ IsP(st[2].t, ":") /\ st[2].gap = "no"

\* the type group of #backgroundPattern: (background)
BackgroundType(st) == Len(st) = 1 /\ IsWord(st[1].t, "background")

SpellBlockPattern(b) == \E s \in TypeSpans(b) : SpellType(TypeGroup(b, s[1], s[2]))

\* the empty type group matches too: a blank line after a name line
ItemBlockPattern(b) ==
  \/ \E s \in TypeSpans(b) : ItemType(TypeGroup(b, s[1], s[2]))
  \/ \E a \in 2..(Len(b) - 1) : b[a] = <<>> /\ NameBefore(b, a)

MonsterBlockPattern(b) == \E s \in TypeSpans(b) : MonsterType(TypeGroup(b, s[1], s[2]))

ClassFeaturePattern(b) ==
  \E s \in TypeSpans(b) : ClassFeatureType(TypeGroup(b, s[1], s[2]))

FeatPattern(b) == \E s \in TypeSpans(b) : FeatType(TypeGroup(b, s[1], s[2]))

BackgroundPattern(b) == \E s \in TypeSpans(b) : BackgroundType(TypeGroup(b, s[1], s[2]))

\* \d+ begins the token
BeginsWithDigit(t) == t.c = "n" \/ (t.c = "w" /\ SubSeq(t.s, 1, 1) \in DigitChars)

\* /armor class\s+\d+/i
HasArmorClassNumber(st) ==
  \E q \in 1..(Len(st) - 2) :
    /\ st[q].t.c = "w" /\ EndsWith(st[q].t.s, "armor")
    /\ IsWord(st[q + 1].t, "class") /\ st[q + 1].gap = "sp"
    /\ BeginsWithDigit(st[q + 2].t) /\ White(st[q + 2].gap)

\* a token of [\dd\+\s]+
IsDiceToken(t) ==
  \/ t.c = "n" \/ IsP(t, "+")
  \/ t.c = "w" /\ AllIn(t.s, DigitChars \cup {"d"})

\* /hit points\s+\d+\s*\([\dd\+\s]+\)/i
HasHitPointsDice(st) ==
  \E q \in 1..(Len(st) - 5), e \in 1..Len(st) :
    /\ e >= q + 5
    /\ st[q].t.c = "w" /\ EndsWith(st[q].t.s, "hit")
    /\ IsWord(st[q + 1].t, "points") /\ st[q + 1].gap = "sp"
    /\ IsNum(st[q + 2].t) /\ White(st[q + 2].gap)
    /\ IsP(st[q + 3].t, "(") /\ IsP(st[e].t, ")")
    /\ \A r \in (q + 4)..(e - 1) : IsDiceToken(st[r].t)

\* \s+\d+\s*\([+-]\d+\) after the q-th token
ScoreAfter(st, q) ==
  /\ q + 5 <= Len(st)
  /\ IsNum(st[q + 1].t) /\ White(st[q + 1].gap)
  /\ IsP(st[q + 2].t, "(")
  /\ (IsP(st[q + 3].t, "+") \/ IsP(st[q + 3].t, "-")) /\ st[q + 3].gap = "no"
  /\ IsNum(st[q + 4].t) /\ st[q + 4].gap = "no"
  /\ IsP(st[q + 5].t, ")") /\ st[q + 5].gap = "no"

\* /str\s+\d+\s*\([+-]\d+\)|dex\s+\d+\s*\([+-]\d+\)/i
HasStrOrDex(st) ==
  \E q \in 1..Len(st) :
    /\ st[q].t.c = "w" /\ (EndsWith(st[q].t.s, "str") \/ EndsWith(st[q].t.s, "dex"))
    /\ ScoreAfter(st, q)

\* /\b(str|...|cha)\s+\d+\s*\([+-]\d+\)\s+(str|...|cha)\s+\d+\s*\([+-]\d+\)/i
HasTwoAbilities(st) ==
  \E q \in 1..(Len(st) - 6) :
    /\ st[q].t.c = "w" /\ st[q].t.s \in AbilityIds /\ ScoreAfter(st, q)
    /\ st[q + 6].t.c = "w" /\ st[q + 6].t.s \in AbilityIds /\ White(st[q + 6].gap)
    /\ ScoreAfter(st, q + 6)

\* the tokens p..e are digits and the punctuation ch, written without blanks
IsDigitRun(st, p, e, ch) ==
  /\ p <= e
  /\ \A r \in p..e : IsNum(st[r].t) \/ IsP(st[r].t, ch)
  /\ \A r \in (p + 1)..e : st[r].gap = "no"

\* /challenge\s+([\d\/]+)\s*\([\d,]+\s*xp\)/i
HasChallengeXp(st) ==
  \E q \in 1..Len(st), e \in 1..Len(st), f \in 1..Len(st) :
    /\ q < e /\ e + 1 < f /\ f + 2 <= Len(st)
    /\ st[q].t.c = "w" /\ EndsWith(st[q].t.s, "challenge")
    /\ IsDigitRun(st, q + 1, e, "/") /\ White(st[q + 1].gap)
    /\ IsP(st[e + 1].t, "(")
    /\ IsDigitRun(st, e + 2, f, ",") /\ st[e + 2].gap = "no"
    /\ IsWord(st[f + 1].t, "xp")
    /\ IsP(st[f + 2].t, ")") /\ st[f + 2].gap = "no"

\* /feature:/i
HasFeatureColon(st) ==
  \E q \in 1..(Len(st) - 1) :
    /\ st[q].t.c = "w" /\ EndsWith(st[q].t.s, "feature")
    /\ IsP(st[q + 1].t, ":") /\ st[q + 1].gap = "no"

\* the keyword tests after the patterns, in the order of the source
IsSpellLike(st) ==
  /\ HasPair(st, "casting", "time") \/ HasAnyKey(st, {"components", "duration", "range"})
  /\ HasAnyKey(st, Schools)

IsToolLike(st) ==
  /\ HasAnyKey(st, {"tool", "kit", "supplies"})
  /\ HasAnyKey(st, {"artisan", "thieves", "herbalism"}) \/ HasPair(st, "musical", "instrument")

IsWeaponLike(st) ==
  /\ HasAnyKey(st, {"weapon", "sword", "axe", "bow", "crossbow"})
  /\ HasAnyKey(st, {"damage", "attack", "range", "properties"})

IsArmorLike(st) ==
  /\ HasAnyKey(st, {"armor", "shield", "plate", "mail"})
  /\ HasKey(st, "ac") \/ HasPair(st, "armor", "class")

IsItemLike(st) ==
  /\ HasPair(st, "wondrous", "item") \/ HasAnyKey(st, StartKinds)
  /\ HasAnyKey(st, {"attunement", "rarity", "requires"})

IsMonsterLike(st) ==
  /\ \/ HasPair(st, "armor", "class") \/ HasPair(st, "hit", "points")
     \/ HasAnyKey(st, {"speed"} \cup AbilityIds)
  /\ HasKey(st, "actions")

IsBackgroundLike(st) ==
  /\ HasKey(st, "background")
  /\ \/ HasPair(st, "skill", "proficiencies") \/ HasFeatureColon(st)
     \/ HasKey(st, "equipment") \/ HasPair(st, "suggested", "characteristics")

Kinds == {"spell", "item", "monster", "classFeature", "feat", "background"}

\* the keyword tests of _identifyBlockType on the tokens of the block
IdentifyByKeywords(st) ==
  IF IsSpellLike(st) THEN "spell"
  ELSE IF IsToolLike(st) \/ IsWeaponLike(st) \/ IsArmorLike(st) \/ IsItemLike(st) THEN "item"
  ELSE IF IsMonsterLike(st) THEN "monster"
  ELSE IF IsBackgroundLike(st) THEN "background"
  ELSE None

\* the tests of _identifyBlockType that follow the monster pattern
IdentifyByStatblock(b, st) ==
  IF (HasArmorClassNumber(st) \/ HasHitPointsDice(st)) /\ HasStrOrDex(st) THEN "monster"
  ELSE IF HasTwoAbilities(st) THEN "monster"
  ELSE IF HasChallengeXp(st) THEN "monster"
  ELSE IF ClassFeaturePattern(b) THEN "classFeature"
  ELSE IF FeatPattern(b) THEN "feat"
  ELSE IF BackgroundPattern(b) THEN "background"
  ELSE IdentifyByKeywords(st)

\* _identifyBlockType(block)
IdentifyBlockType(b) ==
  IF SpellBlockPattern(b) THEN "spell"
  ELSE IF ItemBlockPattern(b) THEN "item"
  ELSE IF MonsterBlockPattern(b) THEN "monster"
  ELSE IdentifyByStatblock(b, Stream(b))

\* block.trim().length < 10
MinBlockLength == 10

\* a variant that keeps the very short blocks too
IsShort_Never(b) == FALSE

\* if (block.trim().length < 10) continue
IsShort(b) == TextChars(Trim(b)) < MinBlockLength

\* if (blockType) contentBlocks.push({type: blockType, content: block.trim()})
PushTyped(out, b, type) ==
  IF type = None THEN out ELSE Append(out, [type |-> type, content |-> Trim(b)])

\* what the turn knows of the block: nothing when it is short, else its type
TypeIfLong(b) == IF IsShort(b) THEN None ELSE IdentifyBlockType(b)

\* one turn of the loop of detectContentBlocks: the list with the block
\* pushed when it is long enough and has a type
PushBlock(out, b) == PushTyped(out, b, TypeIfLong(b))

\* the loop of detectContentBlocks over the potential blocks from block j on
RECURSIVE ClassifiedFrom(_, _, _)
ClassifiedFrom(bs, j, out) ==
  IF j > Len(bs) THEN out ELSE ClassifiedFrom(bs, j + 1, PushBlock(out, bs[j]))

Classified(bs) == ClassifiedFrom(bs, 1, <<>>)

\* detectContentBlocks(text)
DetectContentBlocks(text) == Classified(SplitIntoBlocks(text))

(***************************************************************************)
(* Input texts                                                             *)
(***************************************************************************)

MaxLen == 2
MaxRun == 4
MaxEntries == 2

Ability(abbr, score, sign, mod) ==
  <<Caps(abbr), Num(score), P("("), P(sign), Num(mod), P(")")>>

L_Name == <<Up("goblin")>>
L_Racial ==
  <<Up("small"), Lo("humanoid"), P("("), Lo("goblinoid"), P(")"), P(","),
    Lo("neutral"), Lo("evil")>>
L_AC ==
  <<Up("armor"), Up("class"), Num(15), P("("), Lo("leather"), Lo("armor"), P(","),
    Lo("shield"), P(")")>>
L_ACNatural ==
  <<Up("armor"), Up("class"), Num(15), P("("), Lo("natural"), Lo("armor"), P(")")>>
L_ACBare == <<Up("armor"), Up("class"), Num(12)>>
L_HP == <<Up("hit"), Up("points"), Num(7), P("("), Lo("2d6"), P(")")>>
L_HPBig ==
  <<Up("hit"), Up("points"), Num(135), P("("), Lo("18d10"), P("+"), Num(36), P(")")>>
L_HPBare == <<Up("hit"), Up("points"), Num(7)>>
L_Speed == <<Up("speed"), Num(30), Lo("ft"), P(".")>>
L_SpeedFly ==
  <<Up("speed"), Num(40), Lo("ft"), P("."), P(","), Lo("fly"), Num(80), Lo("ft"), P(".")>>
L_Str == Ability("str", 8, "-", 1)
L_Dex == Ability("dex", 14, "+", 2)
L_AbilitiesRow ==
  Ability("str", 8, "-", 1) \o Ability("dex", 14, "+", 2) \o Ability("con", 10, "+", 0)
    \o Ability("int", 10, "+", 0) \o Ability("wis", 8, "-", 1) \o Ability("cha", 8, "-", 1)
L_Skills == <<Up("skills"), Up("stealth"), P("+"), Num(6)>>
L_Senses ==
  <<Up("senses"), Lo("darkvision"), Num(60), Lo("ft"), P("."), P(","), Lo("passive"),
    Up("perception"), Num(9)>>
L_Languages == <<Up("languages"), Up("common"), P(","), Up("goblin")>>
L_Challenge ==
  <<Up("challenge"), Num(1), P("/"), Num(4), P("("), Num(50), Caps("xp"), P(")")>>
L_ChallengeWhole ==
  <<Up("challenge"), Num(5), P("("), Num(1), P(","), Num(800), Caps("xp"), P(")")>>
L_ChallengeZeroDen ==
  <<Up("challenge"), Num(1), P("/"), Num(0), P("("), Num(50), Caps("xp"), P(")")>>
L_Actions == <<Up("actions")>>
L_Scimitar ==
  <<Up("scimitar"), P("."), Up("melee"), Up("weapon"), Up("attack"), P(":"), P("+"),
    Num(4), Lo("to"), Lo("hit"), P(","), Lo("reach"), Num(5), Lo("ft"), P("."), P(","),
    Lo("one"), Lo("target"), P("."), Up("hit"), P(":"), Num(5), P("("), Lo("1d6"),
    P("+"), Num(2), P(")"), Lo("slashing"), Lo("damage"), P(".")>>
L_Multiattack ==
  <<Up("multiattack"), P("."), Up("the"), Lo("creature"), Lo("makes"), Lo("two"),
    Lo("attacks"), P(".")>>
L_NimbleEscape ==
  <<Up("nimble"), Up("escape"), P("."), Up("the"), Lo("goblin"), Lo("can"), Lo("hide"), P(".")>>
\* a continuation line of a description: it holds a period
L_Continuation == <<Lo("one"), Lo("target"), P("."), Up("hit"), P(":"), Num(5), Lo("damage"), P(".")>>
\* a continuation line that holds no period
L_Plain == <<Lo("slashing"), Lo("damage")>>
\* a title of more than 1 + TitleMax characters
L_LongTitle ==
  <<Up("legendary"), Up("resistance"), Lo("three"), Lo("times"), Lo("per"), Lo("day"),
    P("."), Up("it"), Lo("succeeds"), P(".")>>
L_Note == <<P("*"), Lo("see"), Lo("errata")>>

SeqsUpTo(S, n) == UNION {[1..m -> S] : m \in 0..n}

RECURSIVE Flatten(_)
Flatten(ss) == IF ss = <<>> THEN <<>> ELSE Head(ss) \o Flatten(Tail(ss))

\* texts with no non-blank line
EmptyTexts == {<<>>, << <<>> >>, << <<>>, <<>> >>}

FreeLines ==
  {<<>>, L_Note, L_Racial, L_AC, L_ACBare, L_HP, L_HPBare, L_Speed, L_Str, L_Dex,
   L_AbilitiesRow, L_Skills, L_Senses, L_Challenge, L_ChallengeWhole,
   L_ChallengeZeroDen, L_Actions, L_NimbleEscape, L_Continuation, L_LongTitle}

\* a name line and up to MaxLen further lines of any kind
FreeTexts == {<<L_Name>> \o t : t \in SeqsUpTo(FreeLines, MaxLen)}

TaggerLines == {L_Str, L_Dex, L_AC, L_Senses, L_NimbleEscape, L_Actions}

\* a name line and up to MaxRun lines that drive the tagger's flags
TaggerTexts == {<<L_Name>> \o t : t \in SeqsUpTo(TaggerLines, MaxRun)}

SectionLines == {L_Scimitar, L_LongTitle, L_Continuation, L_Plain}

\* a name line, the Actions header and up to MaxEntries + 1 lines under it
SectionTexts ==
  {<<L_Name, L_Actions>> \o t : t \in SeqsUpTo(SectionLines, MaxEntries + 1)}

AbilityRows ==
  { <<Ability("str", 8, "-", 1), Ability("dex", 14, "+", 2), Ability("con", 10, "+", 0),
      Ability("int", 10, "+", 0), Ability("wis", 8, "-", 1), Ability("cha", 8, "-", 1)>>,
    <<Ability("str", 27, "+", 8), Ability("dex", 10, "+", 0), Ability("con", 25, "+", 7),
      Ability("int", 16, "+", 3), Ability("wis", 13, "+", 1), Ability("cha", 21, "+", 5)>> }

Perms(n) == {p \in [1..n -> 1..n] : \A a, b \in 1..n : a # b => p[a] # p[b]}

Groups(ac, hp, sp, ab) == << <<ac>>, <<hp>>, <<sp>>, ab >>

\* a name, the racial details and the four groups of the preamble in every
\* order, each group with two spellings
PreambleTexts ==
  { <<L_Name, L_Racial>> \o Flatten([j \in 1..4 |-> Groups(ac, hp, sp, ab)[p[j]]]) \o tl :
      p \in Perms(4), ac \in {L_ACNatural, L_ACBare}, hp \in {L_HP, L_HPBig},
      sp \in {L_Speed, L_SpeedFly}, ab \in AbilityRows,
      tl \in {<<>>, <<L_Languages>>} }

\* the elements of seq whose index is in M, in order
RECURSIVE Pick(_, _, _)
Pick(seq, M, n) ==
  IF n = 0 THEN <<>>
  ELSE Pick(seq, M, n - 1) \o (IF n \in M THEN <<seq[n]>> ELSE <<>>)

TopLines == <<L_Skills, L_Senses, L_Languages, L_Challenge>>
EntryLines == {L_Scimitar, L_Multiattack}
AbilityLayouts ==
  { <<L_AbilitiesRow>>,
    <<Ability("str", 8, "-", 1), Ability("dex", 14, "+", 2), Ability("con", 10, "+", 0),
      Ability("int", 10, "+", 0), Ability("wis", 8, "-", 1), Ability("cha", 8, "-", 1)>> }
ActionTails ==
  {<<>>} \cup {<<L_Actions>> \o es : es \in UNION {[1..k -> EntryLines] : k \in 1..MaxEntries}}

\* statblocks laid out as the Goblin of the specification: preamble, some of
\* the further top-level lines, an optional feature, an optional Actions section
StatblockTexts ==
  { <<L_Name, L_Racial, L_AC, L_HP, L_Speed>> \o ab \o Pick(TopLines, M, 4) \o ft \o at :
      ab \in AbilityLayouts, M \in SUBSET (1..4),
      ft \in {<<>>, <<L_NimbleEscape>>}, at \in ActionTails }

Goblin ==
  <<L_Name, L_Racial, L_AC, L_HP, L_Speed, L_AbilitiesRow, L_Skills, L_Senses,
    L_Languages, L_Challenge, L_Actions, L_Scimitar>>

Texts ==
  EmptyTexts \cup FreeTexts \cup TaggerTexts \cup SectionTexts \cup PreambleTexts
    \cup StatblockTexts

(***************************************************************************)
(* Documents: texts as the PDF extraction hands them to                    *)
(* detectContentBlocks                                                     *)
(***************************************************************************)

MaxRuns == 3

L_Fireball == <<Up("fireball")>>
L_SpellType == <<Lo("3rd"), P("-"), Lo("level"), Lo("evocation")>>
L_CastingTime == <<Up("casting"), Up("time"), P(":"), Num(1), Lo("action")>>
L_Range == <<Up("range"), P(":"), Num(150), Lo("feet")>>
L_Cloak == <<Up("cloak"), Lo("of"), Up("protection")>>
L_ItemType == <<Up("wondrous"), Lo("item"), P(","), Lo("uncommon")>>
L_Rule == <<P("---")>>
L_Page == <<Num(12)>>
\* a header that the extraction has cut from its value
L_HitPoints == <<Up("hit"), Up("points")>>
L_HPValue == <<Num(7), P("("), Lo("2d6"), P(")")>>

D_Monster == <<L_Name, L_Racial, L_AC, L_HP, L_AbilitiesRow, L_Challenge>>
D_MonsterSplit == <<L_Name, L_Racial, L_AC, L_HitPoints, L_HPValue, L_AbilitiesRow>>
D_Spell == <<L_Fireball, L_SpellType, L_CastingTime, L_Range>>
D_Item == <<L_Cloak, L_ItemType, L_Plain>>
\* a text that no test of _identifyBlockType matches
D_Noise == <<L_Plain>>

Documents ==
  {D_Monster, D_MonsterSplit, D_Spell, D_Noise,
   D_Spell \o <<L_Rule>> \o D_MonsterSplit,
   D_Monster \o <<L_Page>> \o D_Item,
   D_Spell \o D_MonsterSplit,
   D_Monster \o <<L_Rule>> \o D_Spell \o <<L_Rule>> \o D_MonsterSplit}

(***************************************************************************)
(* parseMonster as a state machine: one step per line of the tagger's loop *)
(***************************************************************************)
VARIABLES content, pc, name, lines, i, blocks, currentBlockId, foundTopBlock,
          foundAbilityLine, monsterData, error, lastIndex,
          hasRequire, extractedText, contentBlocks, records, history, ppc,
          chunks, chunkIndex, refineLine, blockStart, currentBlock, potentialBlocks,
          blockIndex, blockType,
          detectedItems, selectedItems, imported, notice, pdfFile, calls

vars == <<content, pc, name, lines, i, blocks, currentBlockId, foundTopBlock,
          foundAbilityLine, monsterData, error, lastIndex,
          hasRequire, extractedText, contentBlocks, records, history, ppc,
          chunks, chunkIndex, refineLine, blockStart, currentBlock, potentialBlocks,
          blockIndex, blockType,
          detectedItems, selectedItems, imported, notice, pdfFile, calls>>

\* the variables of detectContentBlocks, step by step
dvars ==
  <<chunks, chunkIndex, refineLine, blockStart, currentBlock, potentialBlocks,
    blockIndex, blockType>>

\* the variables of the import window
wvars == <<detectedItems, selectedItems, imported, notice>>

\* the file of the window, <<>> for null and <<file>> for a file, and the
\* calls of handlePdfFile made so far
cvars == <<pdfFile, calls>>

\* the variables of the pipeline around parseMonster
pvars ==
  <<hasRequire, extractedText, contentBlocks, records, history, ppc, dvars, wvars, cvars>>

\* the state of the detector and of the window before anything has run
DetectorIdle ==
  /\ chunks = <<>>
  /\ chunkIndex = 0
  /\ refineLine = 0
  /\ blockStart = 0
  /\ currentBlock = <<>>
  /\ potentialBlocks = <<>>
  /\ blockIndex = 0
  /\ blockType = None

\* constructor of spbiWindow: no detected item, nothing selected
WindowInit ==
  /\ detectedItems = <<>>
  /\ selectedItems = <<>>
  /\ imported = <<>>
  /\ notice = [text |-> "", count |-> 0]
  /\ pdfFile = <<>>
  /\ calls = <<>>

\* content is the text handed to #regex.removeNewLines, as its lines
Init ==
  /\ content \in Texts
  /\ pc = "start"
  /\ name = <<>>
  /\ lines = <<>>
  /\ i = 0
  /\ blocks = <<>>
  /\ currentBlockId = None
  /\ foundTopBlock = TRUE
  /\ foundAbilityLine = FALSE
  /\ monsterData = <<>>
  /\ error = None
  /\ lastIndex = 0
  /\ hasRequire = TRUE
  /\ extractedText = <<>>
  /\ contentBlocks = <<>>
  /\ records = <<>>
  /\ history = <<>>
  /\ ppc = "parse"
  /\ DetectorIdle
  /\ WindowInit

\* parseMonster up to the call of _parseIntoBlocks
ParseStart ==
  /\ pc = "start"
  /\ lastIndex' = ReplaceGlobal(content, lastIndex).lastIndex
  /\ LET ls == NonBlank(ReplaceGlobal(content, lastIndex).text)
     IN IF Len(ls) = 0
        THEN /\ pc' = "error"
             /\ error' = "No content to parse"
             /\ UNCHANGED <<name, lines>>
        ELSE /\ pc' = "tag"
             /\ name' = Head(ls)
             /\ lines' = Tail(ls)
             /\ UNCHANGED error
  /\ i' = 0
  /\ blocks' = TagInit.blocks
  /\ currentBlockId' = TagInit.currentBlockId
  /\ foundTopBlock' = TagInit.foundTopBlock
  /\ foundAbilityLine' = TagInit.foundAbilityLine
  /\ UNCHANGED <<content, monsterData, pvars>>

TagState ==
  [blocks |-> blocks, currentBlockId |-> currentBlockId,
   foundTopBlock |-> foundTopBlock, foundAbilityLine |-> foundAbilityLine]

\* one iteration of the loop of _parseIntoBlocks
TagLine ==
  /\ pc = "tag"
  /\ i < Len(lines)
  /\ \E st \in {TagStep(TagState, lines[i + 1], i)} :
       /\ blocks' = st.blocks
       /\ currentBlockId' = st.currentBlockId
       /\ foundTopBlock' = st.foundTopBlock
       /\ foundAbilityLine' = st.foundAbilityLine
  /\ i' = i + 1
  /\ UNCHANGED <<content, pc, name, lines, monsterData, error, lastIndex, pvars>>

\* the loop has ended: the extractors build the record
Assemble ==
  /\ pc = "tag"
  /\ i = Len(lines)
  /\ monsterData' = MonsterData(name, blocks)
  /\ pc' = "done"
  /\ UNCHANGED <<content, name, lines, i, blocks, currentBlockId, foundTopBlock,
                 foundAbilityLine, error, lastIndex, pvars>>

Next == ParseStart \/ TagLine \/ Assemble

Spec == Init /\ [][Next]_vars

\* parseMonster(text) as a function: the record, or None when it throws
ParseMonster(text) ==
  LET ls == NonBlank(CleanInput(text))
  IN IF Len(ls) = 0 THEN None
     ELSE MonsterData(Head(ls), ParseIntoBlocks(Tail(ls)))

TypeOK ==
  /\ pc \in {"start", "tag", "done", "error"}
  /\ pc = "done" => monsterData = ParseMonster(content)

(***************************************************************************)
(* The pipeline detectContentBlocks, then parseContent for every block,    *)
(* run again and again in one session.  The state that outlives a run is   *)
(* the lastIndex of #regex.removeNewLines; whether require resolves the    *)
(* parser module is fixed by the build.                                    *)
(***************************************************************************)

pmvars ==
  <<content, pc, name, lines, i, blocks, currentBlockId, foundTopBlock, foundAbilityLine,
    monsterData, error>>

PipelineInit ==
  /\ content = <<>>
  /\ pc = "idle"
  /\ name = <<>>
  /\ lines = <<>>
  /\ i = 0
  /\ blocks = <<>>
  /\ currentBlockId = None
  /\ foundTopBlock = TRUE
  /\ foundAbilityLine = FALSE
  /\ monsterData = <<>>
  /\ error = None
  /\ lastIndex = 0
  /\ hasRequire \in BOOLEAN
  /\ extractedText = <<>>
  /\ contentBlocks = <<>>
  /\ records = <<>>
  /\ history = <<>>
  /\ ppc = "idle"
  /\ DetectorIdle
  /\ WindowInit

\* the block that parseContent is called for next
NextBlock == contentBlocks[Len(records) + 1]

\* the static methods that the class contentParser defines
ParserMethods ==
  {"_parseSpell", "_parseItem", "_parseMonster", "_parseClassFeature", "_parseFeat",
   "_parseBackground", "_extractDamageParts", "_compareDamageDice", "_extractSaveAbility",
   "_extractName", "_extractKeyValuePair", "_extractSpellLevel", "_extractSpellSchool",
   "_extractComponents", "_extractMaterials", "_checkForRitual", "_extractItemType",
   "_extractItemSubtype", "_extractItemRarity", "_checkForAttunement", "_extractWeight",
   "_extractPrice", "_extractItemProperties", "_extractMonsterSize",
   "_extractMonsterType", "_extractMonsterAlignment", "_extractAC", "_extractHP",
   "_extractHPFormula", "_extractSpeed", "_extractAbilityScores", "_extractSavingThrows",
   "_extractSkills", "_extractDamageResistances"}

\* a class that defines every method its parsers call
ParserMethods_Complete ==
  ParserMethods \cup
    {"_extractDescription", "_extractSource", "_extractClass", "_extractFeatureLevel",
     "_extractPrerequisites", "_extractSkillProficiencies", "_extractToolProficiencies",
     "_extractBackgroundLanguages", "_extractBackgroundEquipment",
     "_extractBackgroundFeature", "_extractTraitList"}

\* the methods that the parser of a kind calls to build its record, in the
\* order of the object literal; "fallback" is the catch clause of
\* _parseMonster, where _extractDamageResistances calls _extractTraitList
ParserCalls(type) ==
  CASE type = "spell" ->
         <<"_extractName", "_extractSpellLevel", "_extractSpellSchool",
           "_extractKeyValuePair", "_extractComponents", "_extractMaterials",
           "_extractDescription", "_checkForRitual", "_extractSource">>
    [] type = "item" ->
         <<"_extractName", "_extractItemType", "_extractItemSubtype", "_extractItemRarity",
           "_checkForAttunement", "_extractDescription", "_extractWeight", "_extractPrice",
           "_extractItemProperties", "_extractSource">>
    [] type = "classFeature" ->
         <<"_extractName", "_extractClass", "_extractFeatureLevel", "_extractDescription",
           "_extractSource">>
    [] type = "feat" ->
         <<"_extractName", "_extractPrerequisites", "_extractDescription",
           "_extractSource">>
    [] type = "background" ->
         <<"_extractName", "_extractSkillProficiencies", "_extractToolProficiencies",
           "_extractBackgroundLanguages", "_extractBackgroundEquipment",
           "_extractBackgroundFeature", "_extractDescription", "_extractSource">>
    [] type = "fallback" ->
         <<"_extractName", "_extractMonsterSize", "_extractMonsterType",
           "_extractMonsterAlignment", "_extractAC", "_extractHP", "_extractHPFormula",
           "_extractSpeed", "_extractAbilityScores", "_extractSavingThrows",
           "_extractSkills", "_extractDamageResistances", "_extractTraitList">>
    [] OTHER -> <<>>

\* the kinds that the switch of parseContent knows
ParsedKinds == {"spell", "item", "monster", "classFeature", "feat", "background"}

\* what the parser of a kind other than monster ends with: the call of a
\* method that the class does not define throws a TypeError
ParseOutcome(type) ==
  IF type \notin ParsedKinds THEN "Error"
  ELSE IF \A q \in 1..Len(ParserCalls(type)) : ParserCalls(type)[q] \in ParserMethods
       THEN None
       ELSE "TypeError"

\* the result of parseContent for one block: the error it throws, or none
\* and the record
Outcome(type, err, data) == [type |-> type, error |-> err, data |-> data]

\* an item is pushed whatever parseContent did
PushParsed_Always(items, block, out) ==
  Append(items, [type |-> block.type, data |-> out.data, content |-> block.content,
                 selected |-> TRUE])

\* try { detectedItems.push({...}) } catch (error) { console.error(...) }
PushParsed(items, block, out) ==
  IF out.error # None THEN items
  ELSE Append(items, [type |-> block.type, data |-> out.data, content |-> block.content,
                      selected |-> TRUE])

\* new Set(detectedItems.map((_, index) => index)), in insertion order
AllIndexes(items) == [q \in 1..Len(items) |-> q - 1]

\* handlePdfFile up to the loop: detectContentBlocks(text); without a block
\* the handler warns and returns, and the items of the last file stay
Detect ==
  /\ ppc = "idle"
  /\ Len(history) < MaxRuns
  /\ \E t \in Documents :
       /\ pdfFile' = <<t>>
       /\ extractedText' = t
       /\ contentBlocks' = DetectContentBlocks(t)
       /\ IF Len(DetectContentBlocks(t)) = 0
          THEN /\ notice' = [text |-> "No content blocks were detected in the PDF.",
                               count |-> 0]
               /\ history' = Append(history, [text |-> t, blocks |-> <<>>,
                                              records |-> <<>>])
               /\ UNCHANGED <<detectedItems, ppc>>
          ELSE /\ detectedItems' = <<>>
               /\ ppc' = "blocks"
               /\ UNCHANGED <<notice, history>>
  /\ records' = <<>>
  /\ UNCHANGED <<pmvars, lastIndex, hasRequire, dvars, selectedItems, imported, calls>>

\* one turn of the loop for a block of another kind than monster
ParseContent ==
  /\ ppc = "blocks"
  /\ Len(records) < Len(contentBlocks)
  /\ NextBlock.type # "monster"
  /\ \E out \in {Outcome(NextBlock.type, ParseOutcome(NextBlock.type), <<>>)} :
       /\ records' = Append(records, out)
       /\ detectedItems' = PushParsed(detectedItems, NextBlock, out)
  /\ UNCHANGED <<pmvars, lastIndex, hasRequire, extractedText, contentBlocks, history, ppc,
                 dvars, selectedItems, imported, notice, cvars>>

\* parseContent('monster', content): _parseMonster up to the call of
\* monsterParser.parseMonster; without require the call throws
ParseMonsterCall ==
  /\ ppc = "blocks"
  /\ Len(records) < Len(contentBlocks)
  /\ NextBlock.type = "monster"
  /\ IF hasRequire
     THEN /\ content' = NextBlock.content
          /\ pc' = "start"
          /\ ppc' = "monster"
          /\ UNCHANGED <<records, detectedItems>>
     ELSE /\ \E out \in {Outcome("monster", "ReferenceError", <<>>)} :
               /\ records' = Append(records, out)
               /\ detectedItems' = PushParsed(detectedItems, NextBlock, out)
          /\ UNCHANGED <<content, pc, ppc>>
  /\ UNCHANGED <<name, lines, i, blocks, currentBlockId, foundTopBlock, foundAbilityLine,
                 monsterData, error, lastIndex, hasRequire, extractedText, contentBlocks,
                 history, dvars, selectedItems, imported, notice, cvars>>

\* _parseMonster after parseMonster: the record, or the basic parsing of the
\* catch clause
ParseMonsterReturn ==
  /\ ppc = "monster"
  /\ pc \in {"done", "error"}
  /\ \E out \in {IF pc = "done" THEN Outcome("monster", None, monsterData)
                 ELSE Outcome("monster", ParseOutcome("fallback"), <<>>)} :
       /\ records' = Append(records, out)
       /\ detectedItems' = PushParsed(detectedItems, NextBlock, out)
  /\ ppc' = "blocks"
  /\ pc' = "idle"
  /\ UNCHANGED <<content, name, lines, i, blocks, currentBlockId, foundTopBlock,
                 foundAbilityLine, monsterData, error, lastIndex, hasRequire, extractedText,
                 contentBlocks, history, dvars, selectedItems, imported, notice, cvars>>

\* the loop has ended: renderItemsList, every item selected; the run and its
\* results are kept for comparison
Finish ==
  /\ ppc = "blocks"
  /\ Len(records) = Len(contentBlocks)
  /\ selectedItems' = AllIndexes(detectedItems)
  /\ history' = Append(history, [text |-> extractedText, blocks |-> contentBlocks,
                                  records |-> records])
  /\ ppc' = "idle"
  /\ UNCHANGED <<pmvars, lastIndex, hasRequire, extractedText, contentBlocks, records,
                 dvars, detectedItems, imported, notice, cvars>>

\* ui.notifications: the text of the last notice and the count it reports
Notice(text, count) == [text |-> text, count |-> count]

\* the static methods that the class schemaMapper defines
MapperMethods ==
  {"mapToFoundrySchema", "_mapSpellData", "_mapItemData", "_mapMonsterData",
   "createMonsterActor", "_mapClassFeatureData", "_mapFeatData", "_mapActivationType",
   "_extractActivationCost", "_extractDurationValue", "_mapDurationUnits",
   "_extractTargetValue", "_extractRangeValue", "_mapRangeUnits", "_determineTargetType",
   "_extractDamageParts", "_extractSaveAbility", "_determineSpellActionType",
   "_determineScalingMode", "_extractScalingFormula"}

\* the methods that the mapper of a kind calls, in the order of the code
MapperCalls(type) ==
  CASE type = "spell" ->
         <<"_mapSpellData", "_mapActivationType", "_extractActivationCost",
           "_extractDurationValue", "_mapDurationUnits", "_extractTargetValue",
           "_determineTargetType", "_extractRangeValue", "_mapRangeUnits",
           "_determineSpellActionType", "_extractDamageParts", "_extractSaveAbility",
           "_extractSpellLevel", "_mapSpellSchool", "_determineScalingMode",
           "_extractScalingFormula">>
    [] type = "item" -> <<"_mapItemData", "_determineItemType", "_getItemImage",
                          "_mapItemRarity">>
    [] type = "monster" -> <<"_mapMonsterData">>
    [] type = "classFeature" -> <<"_mapClassFeatureData">>
    [] type = "feat" -> <<"_mapFeatData">>
    [] OTHER -> <<>>

\* the kinds that the switch of mapToFoundrySchema knows
MappedKinds == {"spell", "item", "monster", "classFeature", "feat"}

\* what mapToFoundrySchema ends with for a kind: the error it throws, or
\* none; _mapMonsterData calls require
MapOutcome(type, require) ==
  IF type \notin MappedKinds THEN "Error"
  ELSE IF \E q \in 1..Len(MapperCalls(type)) : MapperCalls(type)[q] \notin MapperMethods
       THEN "TypeError"
       ELSE IF type = "monster" /\ ~require THEN "ReferenceError"
            ELSE None

\* the kinds that the switch of validateData knows
ValidatedKinds == {"spell", "item", "monster", "classFeature", "feat"}

\* validateData(type, data) reaches the default of its switch, which throws
\* 'Unknown content type'
ValidateUnknown(type) == type \notin ValidatedKinds

\* the names that importContent declares
ImportScope ==
  {"html", "importType", "folderName", "folderId", "folderType", "folder", "content",
   "importCount", "index", "item", "mappedData", "error"}

\* the object handed to Item.create reads folder: selectedFolderId
CreateOutcome == IF "selectedFolderId" \in ImportScope THEN None ELSE "ReferenceError"

\* the loop of importContent over the selected indexes from the q-th on:
\* the documents created and the error that ended the loop, if any
RECURSIVE ImportFrom(_, _, _, _, _)
ImportFrom(items, selected, q, created, require) ==
  IF q > Len(selected) THEN [created |-> created, error |-> None]
  ELSE IF selected[q] >= Len(items)
       THEN ImportFrom(items, selected, q + 1, created, require)
       ELSE IF MapOutcome(items[selected[q] + 1].type, require) # None
            THEN [created |-> created,
                  error |-> MapOutcome(items[selected[q] + 1].type, require)]
            ELSE IF CreateOutcome # None
                 THEN [created |-> created, error |-> CreateOutcome]
                 ELSE ImportFrom(items, selected, q + 1,
                                 Append(created, items[selected[q] + 1].type), require)

\* the indexes without index
Without(selected, index) == SelectSeq(selected, LAMBDA x : x # index)

\* the change handler of the checkbox of an item: add or delete the index
ToggleItem ==
  /\ ppc = "idle"
  /\ \E index \in 0..(Len(detectedItems) - 1) :
       selectedItems' =
         IF \E q \in 1..Len(selectedItems) : selectedItems[q] = index
         THEN Without(selectedItems, index)
         ELSE Append(selectedItems, index)
  /\ UNCHANGED <<pmvars, lastIndex, hasRequire, extractedText, contentBlocks, records,
                 history, ppc, dvars, detectedItems, imported, notice, cvars>>

\* importContent on the PDF tab
ImportContent ==
  /\ ppc = "idle"
  /\ IF selectedItems = <<>>
     THEN /\ notice' = Notice("Please select at least one item to import.", 0)
          /\ UNCHANGED imported
     ELSE \E r \in {ImportFrom(detectedItems, selectedItems, 1, <<>>, hasRequire)} :
            /\ imported' = imported \o r.created
            /\ notice' = IF r.error = None
                         THEN Notice("Successfully imported items.", Len(r.created))
                         ELSE Notice("Error during import", 0)
  /\ UNCHANGED <<pmvars, lastIndex, hasRequire, extractedText, contentBlocks, records,
                 history, ppc, dvars, detectedItems, selectedItems, cvars>>

PipelineNext ==
  \/ Detect \/ ParseContent \/ ParseMonsterCall
  \/ ParseStart \/ TagLine \/ Assemble
  \/ ParseMonsterReturn \/ Finish

PipelineSpec == PipelineInit /\ [][PipelineNext]_vars

\* the window with its PDF tab open: files are handled, items are selected
\* and imported
WindowNext == PipelineNext \/ ToggleItem \/ ImportContent

WindowSpec == PipelineInit /\ [][WindowNext]_vars

(***************************************************************************)
(* detectContentBlocks as a state machine: the separators, then one step   *)
(* per line of the loop of _refineBlocks, then one step per block of the   *)
(* loop of detectContentBlocks                                             *)
(***************************************************************************)

MaxDocLen == 3

L_FeatType == <<Up("feat")>>
L_CapsArmor == <<Caps("armor")>>
\* nine characters that the weapon test of _identifyBlockType matches
L_BowRange == <<Lo("bow"), Lo("range")>>

DetectorLines ==
  {<<>>, L_Name, L_SpellType, L_FeatType, L_Challenge, L_Plain, L_CapsArmor}

\* four lines before the lines of interest, or none
Preambles == {<<>>, <<L_Plain, L_Plain, L_Plain, L_Plain>>}

\* a feat, a rule, nine characters, a rule: blocks that the separators make
D_Separated == <<L_Name, L_FeatType, L_Plain, L_Rule, L_BowRange, L_Rule>>

SeparatedLines == {L_Plain, L_Rule, L_Challenge}

\* a background: a name line, the type line, a line of text
L_BackgroundType == <<Up("background")>>
D_Background == <<L_Name, L_BackgroundType, L_Plain>>

DetectorTexts ==
  {pre \o t : pre \in Preambles,
              t \in UNION {[1..n -> DetectorLines] : n \in 1..MaxDocLen}}
    \cup {D_Separated \o t : t \in UNION {[1..n -> SeparatedLines] : n \in 1..MaxDocLen}}
    \cup {D_Background, D_Background \o <<L_Rule>> \o D_Monster}

\* the empty text that currentBlock starts as
EmptyText == << <<>> >>

DetectorInit ==
  /\ content = <<>>
  /\ pc = "idle"
  /\ name = <<>>
  /\ lines = <<>>
  /\ i = 0
  /\ blocks = <<>>
  /\ currentBlockId = None
  /\ foundTopBlock = TRUE
  /\ foundAbilityLine = FALSE
  /\ monsterData = <<>>
  /\ error = None
  /\ lastIndex = 0
  /\ hasRequire = TRUE
  /\ extractedText \in DetectorTexts
  /\ contentBlocks = <<>>
  /\ records = <<>>
  /\ history = <<>>
  /\ ppc = "separate"
  /\ DetectorIdle
  /\ WindowInit

\* the variables that the detector leaves alone
ndvars ==
  <<pmvars, lastIndex, hasRequire, extractedText, records, history, wvars, cvars>>

\* _splitIntoBlocks up to the call of _refineBlocks
Separate ==
  /\ ppc = "separate"
  /\ chunks' = SeparatorChunks(extractedText)
  /\ chunkIndex' = 1
  /\ refineLine' = 0
  /\ blockStart' = 0
  /\ currentBlock' = EmptyText
  /\ ppc' = "refine"
  /\ UNCHANGED <<ndvars, contentBlocks, potentialBlocks, blockIndex, blockType>>

\* the chunk that _refineBlocks is working on
Chunk == chunks[chunkIndex]

\* a variant of the turn that starts the new block as the empty text
RefineLine_LosesTitle ==
  /\ ppc = "refine"
  /\ chunkIndex <= Len(chunks)
  /\ Trim(Chunk) # <<>>
  /\ refineLine < Len(Chunk)
  /\ IF /\ refineLine > blockStart + 3
        /\ LooksLikeBlockStart(Chunk[refineLine + 1], Context(Chunk, refineLine))
     THEN /\ potentialBlocks' = Pushed(potentialBlocks, currentBlock)
          /\ currentBlock' = EmptyText
          /\ blockStart' = refineLine
     ELSE /\ currentBlock' = Append(currentBlock, Chunk[refineLine + 1])
          /\ UNCHANGED <<potentialBlocks, blockStart>>
  /\ refineLine' = refineLine + 1
  /\ UNCHANGED <<ndvars, contentBlocks, chunks, chunkIndex, blockIndex, blockType, ppc>>

\* one turn of the inner loop of _refineBlocks, for line refineLine
\* (counted from 0) of the chunk
RefineLine ==
  /\ ppc = "refine"
  /\ chunkIndex <= Len(chunks)
  /\ Trim(Chunk) # <<>>
  /\ refineLine < Len(Chunk)
  /\ IF /\ refineLine > blockStart + 3
        /\ LooksLikeBlockStart(Chunk[refineLine + 1], Context(Chunk, refineLine))
     THEN /\ potentialBlocks' = Pushed(potentialBlocks, currentBlock)
          /\ currentBlock' = <<Chunk[refineLine + 1]>>
          /\ blockStart' = refineLine
     ELSE /\ currentBlock' = Append(currentBlock, Chunk[refineLine + 1])
          /\ UNCHANGED <<potentialBlocks, blockStart>>
  /\ refineLine' = refineLine + 1
  /\ UNCHANGED <<ndvars, contentBlocks, chunks, chunkIndex, blockIndex, blockType, ppc>>

\* the end of the inner loop: the last block of the chunk is added; a blank
\* chunk is passed over
RefineChunk ==
  /\ ppc = "refine"
  /\ chunkIndex <= Len(chunks)
  /\ Trim(Chunk) = <<>> \/ refineLine = Len(Chunk)
  /\ potentialBlocks' =
       IF Trim(Chunk) = <<>> THEN potentialBlocks ELSE Pushed(potentialBlocks, currentBlock)
  /\ chunkIndex' = chunkIndex + 1
  /\ refineLine' = 0
  /\ blockStart' = 0
  /\ currentBlock' = EmptyText
  /\ UNCHANGED <<ndvars, contentBlocks, chunks, blockIndex, blockType, ppc>>

\* _refineBlocks returns: the loop of detectContentBlocks begins
Refined ==
  /\ ppc = "refine"
  /\ chunkIndex > Len(chunks)
  /\ ppc' = "classify"
  /\ UNCHANGED <<ndvars, contentBlocks, dvars>>

\* one turn of the loop of detectContentBlocks; blockType is assigned for
\* the blocks that are long enough only
Classify ==
  /\ ppc = "classify"
  /\ blockIndex < Len(potentialBlocks)
  /\ \E type \in {TypeIfLong(potentialBlocks[blockIndex + 1])} :
       /\ contentBlocks' = PushTyped(contentBlocks, potentialBlocks[blockIndex + 1], type)
       /\ blockType' = IF IsShort(potentialBlocks[blockIndex + 1]) THEN blockType ELSE type
  /\ blockIndex' = blockIndex + 1
  /\ UNCHANGED <<ndvars, chunks, chunkIndex, refineLine, blockStart, currentBlock,
                 potentialBlocks, ppc>>

\* detectContentBlocks returns contentBlocks
Detected ==
  /\ ppc = "classify"
  /\ blockIndex = Len(potentialBlocks)
  /\ ppc' = "detected"
  /\ UNCHANGED <<ndvars, contentBlocks, dvars>>

DetectorNext ==
  Separate \/ RefineLine \/ RefineChunk \/ Refined \/ Classify \/ Detected

DetectorSpec == DetectorInit /\ [][DetectorNext]_vars

\* the steps compute what the functions compute
DetectorOK ==
  /\ ppc \in {"classify", "detected"} => potentialBlocks = SplitIntoBlocks(extractedText)
  /\ ppc = "detected" => contentBlocks = DetectContentBlocks(extractedText)

(***************************************************************************)
(* Reading the input text, for the statements below                        *)
(***************************************************************************)

Done == pc = "done"

\* the indexes of the lines of ls that satisfy test
Where(ls, test(_)) == {j \in 1..Len(ls) : test(ls[j])}
Min(S) == CHOOSE j \in S : \A q \in S : j <= q

IsACLine(l) == StartsWithWords(l, <<"armor", "class">>) /\ Len(l) >= 3 /\ IsNum(l[3])
IsHPLine(l) == StartsWithWords(l, <<"hit", "points">>) /\ Len(l) >= 3 /\ IsNum(l[3])
IsSpeedLine(l) == StartsWithWords(l, <<"speed">>) /\ Len(l) >= 2
\* one ability written on a line of its own: ABBR score (mod)
IsAbilityLine(l) ==
  /\ Len(l) = 6 /\ l[1].c = "w" /\ l[1].s \in AbilityIds /\ IsNum(l[2])
  /\ IsP(l[3], "(") /\ IsSign(l[4]) /\ IsNum(l[5]) /\ IsP(l[6], ")")
\* a line that begins as an ability line, whatever follows on it
BeginsAsAbility(l) == Len(l) >= 6 /\ IsAbilityLine(SubSeq(l, 1, 6))
IsActionsLine(l) == l = <<Up("actions")>>
\* 'Title. text': a capitalised title of word characters, then a period
IsTitleLine(l) ==
  /\ Len(l) >= 2 /\ l[1].c = "w" /\ l[1].cs # "l"
  /\ \E d \in 2..Len(l) : IsP(l[d], ".") /\ \A q \in 1..(d - 1) : IsWordChar(l[q])
TitleOf(l) == SubSeq(l, 1, Min({d \in 1..Len(l) : IsP(l[d], ".")}) - 1)

\* the text between the first pair of parentheses of a line, <<>> without one
Parenthetical(l) ==
  LET o == {j \in 1..Len(l) : IsP(l[j], "(")}
      c == {j \in 1..Len(l) : IsP(l[j], ")")}
  IN IF o = {} \/ c = {} THEN <<>> ELSE SubSeq(l, Min(o) + 1, Min(c) - 1)

\* the numbers written on a line, in order
RECURSIVE NumbersOf(_)
NumbersOf(l) ==
  IF l = <<>> THEN <<>>
  ELSE (IF IsNum(Head(l)) THEN <<Head(l).k>> ELSE <<>>) \o NumbersOf(Tail(l))

NamesOf(entries) == [j \in 1..Len(entries) |-> entries[j].name]

RemoveAt(ls, j) == SubSeq(ls, 1, j - 1) \o SubSeq(ls, j + 1, Len(ls))

\* the section buffer that holds line number n (counted from 0), as a set
HoldersOf(bl, n) ==
  {b \in DOMAIN bl : \E q \in 1..Len(bl[b]) : bl[b][q].lineNumber = n}

(***************************************************************************)
(* C1.  A statblock laid out as the Goblin (name, racial details, AC, HP,  *)
(* Speed, ability line(s), at least one further top-level line, "Actions", *)
(* then k >= 1 lines 'Title. text') yields exactly k actions, named by the *)
(* titles in input order.                                                  *)
(***************************************************************************)
IsGoblinLayout(t) ==
  \E ab \in AbilityLayouts, M \in (SUBSET (1..4)) \ {{}}, at \in ActionTails \ {<<>>} :
    t = <<L_Name, L_Racial, L_AC, L_HP, L_Speed>> \o ab \o Pick(TopLines, M, 4) \o at

EntryLinesOf(t) == SubSeq(t, Min(Where(t, IsActionsLine)) + 1, Len(t))

C1_ActionsNamedByTitles ==
  (Done /\ IsGoblinLayout(content)) =>
     NamesOf(monsterData.actions) =
       [j \in 1..Len(EntryLinesOf(content)) |-> TitleOf(EntryLinesOf(content)[j])]

(***************************************************************************)
(* C2.  With an AC line, an HP line with its dice, a Speed line and six    *)
(* consecutive separate ability lines in the preamble, in any order of the *)
(* four groups, the record holds exactly the numbers written: ac.value and *)
(* formula, hp.value, the speed distances and the six scores.              *)
(***************************************************************************)
SixAbilityLinesAt(t, a) ==
  /\ a + 5 <= Len(t)
  /\ \A j \in 0..5 : IsAbilityLine(t[a + j])
  /\ Cardinality({t[a + j][1].s : j \in 0..5}) = 6

WellFormedPreamble(t) ==
  /\ Cardinality(Where(t, IsACLine)) = 1
  /\ Cardinality(Where(t, IsHPLine)) = 1
  /\ Cardinality(Where(t, IsSpeedLine)) = 1
  /\ Cardinality(Where(t, BeginsAsAbility)) = 6
  /\ \E a \in 2..Len(t) : SixAbilityLinesAt(t, a)
  /\ Min(Where(t, IsACLine) \cup Where(t, IsHPLine) \cup Where(t, IsSpeedLine)) > 1
  /\ Parenthetical(t[Min(Where(t, IsHPLine))]) # <<>>

C2_PreambleNumbersExact ==
  (Done /\ WellFormedPreamble(content)) =>
    LET acl == content[Min(Where(content, IsACLine))]
        hpl == content[Min(Where(content, IsHPLine))]
        spl == content[Min(Where(content, IsSpeedLine))]
    IN /\ monsterData.ac = [value |-> acl[3].k, formula |-> Parenthetical(acl)]
       /\ monsterData.hp.value = hpl[3].k
       /\ [j \in 1..Len(monsterData.speed) |-> monsterData.speed[j].value] = NumbersOf(spl)
       /\ DOMAIN monsterData.abilities = AbilityIds
       /\ \A j \in Where(content, IsAbilityLine) :
            monsterData.abilities[content[j][1].s] = content[j][2].k

\* the ability lines stand before the Armor Class line, and all was read
C2_Witness ==
  /\ Done /\ WellFormedPreamble(content)
  /\ Min(Where(content, IsAbilityLine)) < Min(Where(content, IsACLine))
  /\ Min(Where(content, IsSpeedLine)) < Min(Where(content, IsHPLine))
  /\ monsterData.ac.value = 15 /\ monsterData.abilities["cha"] = 21
  /\ Len(monsterData.speed) = 2

(***************************************************************************)
(* C3.  parseMonster throws exactly when the cleaned text has no non-blank *)
(* line; every other text, whatever is missing or malformed in it, is      *)
(* parsed to the end and gives a record with every field.                  *)
(***************************************************************************)
RecordFields ==
  {"name", "type", "size", "alignment", "ac", "hp", "speed", "abilities",
   "savingThrows", "skills", "damageVulnerabilities", "damageResistances",
   "damageImmunities", "conditionImmunities", "senses", "languages", "challenge",
   "features", "actions", "bonusActions", "reactions", "legendaryActions",
   "lairActions", "mythicActions", "villainActions", "otherInfo"}

AllBlank(t) == \A j \in 1..Len(t) : t[j] = <<>>

C3_ThrowsOnlyOnEmptyText ==
  /\ pc = "error" => (AllBlank(content) /\ error = "No content to parse")
  /\ pc \in {"tag", "done"} => (~AllBlank(content) /\ error = None)
  /\ pc = "tag" => i <= Len(lines)
  /\ pc = "done" => DOMAIN monsterData = RecordFields

\* a text whose only section line is malformed gives a record of defaults
C3_Witness ==
  /\ Done /\ blocks = <<>>
  /\ \E j \in 1..Len(lines) : IsHPLine(lines[j])
  /\ monsterData.hp = [value |-> 0, formula |-> <<>>]
  /\ monsterData.senses = <<>>

(***************************************************************************)
(* C4.  Every record carries the six ability scores: the score of the      *)
(* ability's line, or 10 when no line was matched for it.                  *)
(***************************************************************************)
C4_SixAbilitiesOrTen ==
  Done =>
    /\ DOMAIN monsterData.abilities = AbilityIds
    /\ \A a \in AbilityIds :
         a \notin DOMAIN ExtractAbilities(blocks) => monsterData.abilities[a] = 10

(***************************************************************************)
(* C5.  In a section buffer [header, l1..ln] only a line 'Title Text.'     *)
(* starts an entry; any other line, also a continuation that holds a       *)
(* period, is appended to the current description: there are as many       *)
(* entries as title lines, named by their titles.                          *)
(***************************************************************************)
HeadedEntrySections ==
  {"actions", "bonusActions", "reactions", "legendaryActions", "lairActions",
   "mythicActions", "villainActions"}

\* the lines after the header of a buffer that are title lines, in order
RECURSIVE TitleLinesOf(_, _)
TitleLinesOf(buf, n) ==
  IF n <= 1 THEN <<>>
  ELSE TitleLinesOf(buf, n - 1)
         \o (IF IsTitleLine(buf[n].line) THEN <<TitleOf(buf[n].line)>> ELSE <<>>)

C5_EntriesStartAtTitleLinesOnly ==
  Done =>
    \A b \in HeadedEntrySections \cap DOMAIN blocks :
      NamesOf(monsterData[b]) = TitleLinesOf(blocks[b], Len(blocks[b]))

(***************************************************************************)
(* Reading the tagger's loop one line at a time, for C6                    *)
(***************************************************************************)
\* the section whose header pattern the q-th line matches, None without one
HeaderAt(q) == GetFirstMatch(lines[q], {})

AbilityAt(q) == MatchAbilities(lines[q]).ok

\* the q-th line matches the header of a section other than AbilityScores
DifferentHeaderAt(q) == HeaderAt(q) \notin {None, "abilities"}

\* ... and no earlier line matches that header
UnopenedHeaderAt(q) ==
  DifferentHeaderAt(q) /\ \A r \in 1..(q - 1) : HeaderAt(r) # HeaderAt(q)

\* the loop is about to read the line numbered i (the (i+1)-th of lines)
Reading == pc = "tag" /\ i < Len(lines)

\* the line read is appended to the buffer of section b, which is active
\* afterwards; no other buffer changes and no other section is created
AppendedTo(b) ==
  /\ currentBlockId' = b
  /\ DOMAIN blocks' = DOMAIN blocks \cup {b}
  /\ blocks'[b] = Append(IF b \in DOMAIN blocks THEN blocks[b] ELSE <<>>,
                         [lineNumber |-> i, line |-> lines[i + 1]])
  /\ \A o \in DOMAIN blocks \ {b} : blocks'[o] = blocks[o]

(***************************************************************************)
(* C6.  Consecutive lines that each match the ability-score pattern are    *)
(* all appended, in order, to the one AbilityScores buffer and create or   *)
(* switch to no other section; the first later line that matches a         *)
(* different section header ends the run and becomes the active section.   *)
(* This is the statement as the specification words it.                    *)
(***************************************************************************)
C6_AbilityRunGrouped ==
  [][Reading =>
       /\ AbilityAt(i + 1) => AppendedTo("abilities")
       /\ ( /\ DifferentHeaderAt(i + 1)
            /\ \E a \in 1..i : /\ AbilityAt(a)
                               /\ \A q \in (a + 1)..i : ~DifferentHeaderAt(q) )
          => (AppendedTo(HeaderAt(i + 1)) /\ ~foundAbilityLine')]_vars

(***************************************************************************)
(* C6, amended.  From the first line of the text that matches the ability  *)
(* pattern, the consecutive lines that each match it are all appended, in  *)
(* order, to the one AbilityScores buffer and create or switch to no other *)
(* section; the first later line that matches the header of a section no   *)
(* earlier line has opened ends the run and becomes the active section.    *)
(***************************************************************************)
C6_FirstAbilityRunGrouped ==
  [][Reading =>
       /\ ( /\ AbilityAt(i + 1)
            /\ \A q \in 1..i : AbilityAt(q) => \A r \in q..i : AbilityAt(r) )
          => AppendedTo("abilities")
       /\ ( /\ UnopenedHeaderAt(i + 1)
            /\ \E a \in 1..i : /\ AbilityAt(a)
                               /\ \A q \in (a + 1)..i : ~UnopenedHeaderAt(q) )
          => (AppendedTo(HeaderAt(i + 1)) /\ ~foundAbilityLine')]_vars

\* a run of two ability lines was gathered and the Senses line after it
\* became the active section
C6_Witness ==
  /\ pc = "tag" /\ i >= 3
  /\ AbilityAt(i - 2) /\ AbilityAt(i - 1) /\ HeaderAt(i) = "senses"
  /\ "abilities" \in DOMAIN blocks /\ Len(blocks["abilities"]) = 2
  /\ currentBlockId = "senses" /\ ~foundAbilityLine

(***************************************************************************)
(* C7.  Removing the line of one top-level section changes only that       *)
(* section's field, which becomes its default; every other field of the    *)
(* record stays as it was.                                                 *)
(***************************************************************************)
\* the top-level sections of one line whose field carries the block's name
ListSections ==
  {"savingThrows", "skills", "damageVulnerabilities", "damageResistances",
   "damageImmunities", "conditionImmunities", "senses", "languages"}

DefaultOf(f) == IF f = "challenge" THEN [cr |-> Whole(0), xp |-> 0] ELSE <<>>

\* lines[j] is the one line of section b: it alone matches b's header, and
\* it alone is held in b's buffer
IsSectionLine(b, j) ==
  /\ b \in DOMAIN blocks
  /\ blocks[b] = <<[lineNumber |-> j - 1, line |-> lines[j]]>>
  /\ {q \in 1..Len(lines) : RegexMatches(b, lines[q])} = {j}

C7_RemovalChangesOneField ==
  Done =>
    \A j \in 1..Len(lines) : \A b \in ListSections \cup {"challenge"} :
      IsSectionLine(b, j) =>
        LET r == MonsterData(name, ParseIntoBlocks(RemoveAt(lines, j)))
        IN \A f \in RecordFields :
             r[f] = IF f = b THEN DefaultOf(f) ELSE monsterData[f]

(***************************************************************************)
(* C8.  For every Challenge line the tagger accepts, cr is a finite        *)
(* non-negative rational equal to a, or to a divided by b; never infinite  *)
(* or not-a-number; and 0 when the section is absent.                      *)
(***************************************************************************)
C8_ChallengeRatingFinite ==
  Done =>
    LET cr == monsterData.challenge.cr
    IN /\ cr.kind = "finite" /\ cr.n >= 0 /\ cr.d > 0
       /\ "challenge" \notin DOMAIN blocks => cr = Whole(0)
       /\ "challenge" \in DOMAIN blocks =>
            LET l == blocks["challenge"][1].line
            IN IF IsP(l[3], "/") THEN cr.n * l[4].k = l[2].k * cr.d
               ELSE cr = Whole(l[2].k)

(***************************************************************************)
(* C9.  The parenthetical of Armor Class and of Hit Points is optional: a  *)
(* line 'Hit Points N' or 'Armor Class N' gives value N, with an empty     *)
(* formula when it has no parenthetical; the sentinel is produced only     *)
(* when no such line is there.                                             *)
(***************************************************************************)
C9_ParentheticalOptional ==
  Done =>
    /\ Where(lines, IsHPLine) # {} =>
         LET l == lines[Min(Where(lines, IsHPLine))]
         IN monsterData.hp = [value |-> l[3].k, formula |-> Parenthetical(l)]
    /\ Where(lines, IsACLine) # {} =>
         LET l == lines[Min(Where(lines, IsACLine))]
         IN monsterData.ac = [value |-> l[3].k, formula |-> Parenthetical(l)]
    /\ Where(lines, IsHPLine) = {} => monsterData.hp = [value |-> 0, formula |-> <<>>]
    /\ Where(lines, IsACLine) = {} => monsterData.ac = [value |-> 10, formula |-> <<>>]

HasJoinedHeader(r) ==
  \E q \in 1..Len(r.blocks) :
    /\ r.blocks[q].type = "monster"
    /\ HeaderLines(r.blocks[q].content) # {}
    /\ r.records[q].error = None
    /\ r.records[q].data = ParseMonster(r.blocks[q].content)

LastBlock == potentialBlocks[blockIndex]

\* a block has been looked at and was long enough to be identified
Identified ==
  /\ ppc \in {"classify", "detected"}
  /\ blockIndex > 0
  /\ ~IsShort(LastBlock)

\* the kind of the first of the six block patterns that matches the block
FirstSignature(b) ==
  IF SpellBlockPattern(b) THEN "spell"
  ELSE IF ItemBlockPattern(b) THEN "item"
  ELSE IF MonsterBlockPattern(b) THEN "monster"
  ELSE IF ClassFeaturePattern(b) THEN "classFeature"
  ELSE IF FeatPattern(b) THEN "feat"
  ELSE IF BackgroundPattern(b) THEN "background"
  ELSE None

(***************************************************************************)
(* C11: when one of the six block patterns (spell, item, monster, class    *)
(* feature, feat, background) matches a block, _identifyBlockType returns  *)
(* the kind of the first pattern that matches, whatever keywords the block *)
(* holds: the keyword tests are consulted only when no pattern matches.    *)
(***************************************************************************)
C11_SignatureBeforeKeywords ==
  Identified /\ FirstSignature(LastBlock) # None =>
    blockType = FirstSignature(LastBlock)

\* a line of the block is a spell-school phrase as #spellBlockPattern reads
\* it, such as "3rd-level evocation"
HasSchoolPhrase(b) ==
  \E q \in 1..Len(b) : b[q] # <<>> /\ SpellType(TypeGroup(b, q, q))

\* the q-th token is the name of an ability with a number after it
IsScoreAt(st, q) ==
  /\ q < Len(st)
  /\ st[q].t.c = "w" /\ st[q].t.s \in AbilityIds
  /\ IsNum(st[q + 1].t)

\* no Armor Class phrase, no Hit Points phrase and no ability score anywhere
\* in the block
NoStatLines(b) ==
  /\ ~HasPair(Stream(b), "armor", "class")
  /\ ~HasPair(Stream(b), "hit", "points")
  /\ \A q \in 1..Len(Stream(b)) : ~IsScoreAt(Stream(b), q)

(***************************************************************************)
(* C12: a block that holds a spell-school phrase and no Armor Class line,  *)
(* no Hit Points line and no ability-score line is classified as spell by  *)
(* _identifyBlockType, and never as monster, whatever other keywords       *)
(* (challenge, actions, damage, speed) it holds.                           *)
(***************************************************************************)
C12_SchoolMeansSpell ==
  Identified /\ HasSchoolPhrase(LastBlock) /\ NoStatLines(LastBlock) =>
    blockType = "spell"

\* the weaker half of the same statement: such a block is never a monster
C12_SchoolNeverMonster ==
  Identified /\ HasSchoolPhrase(LastBlock) /\ NoStatLines(LastBlock) =>
    blockType # "monster"

\* /^[A-Z][A-Z\s]+$/ or /^[A-Z][a-z]+(?:\s+[A-Z][a-z]+)*$/
HasTitleShape(l) == IsAllCapsLine(l) \/ IsTitleCaseLine(l)

\* one of the signatures that _looksLikeBlockStart looks for in its context
HasGenreSignature(ls) ==
  \/ HasAnyKey(Stream(ls), StartKeys)
  \/ HasSpellLevelPhrase(Stream(ls))
  \/ HasItemRarityPhrase(Stream(ls))
  \/ HasCreaturePhrase(Stream(ls))

\* the lines of the lookahead window that follow line j (counted from 0)
Following(ls, j) == SubSeq(ls, j + 2, Min2(j + 3, Len(ls)))

\* _refineBlocks is inside a chunk and has started a block at a line of it
\* other than the first
AtBoundary ==
  /\ ppc = "refine"
  /\ chunkIndex <= Len(chunks)
  /\ blockStart > 0

(***************************************************************************)
(* C13: in _refineBlocks a line starts a new block only if it has a title  *)
(* shape (title case or all caps) and a genre signature occurs in the      *)
(* lines that follow it within the lookahead window; a title-shaped line   *)
(* with no following signature never makes a block boundary.               *)
(***************************************************************************)
C13_BoundaryNeedsFollowingSignature ==
  AtBoundary =>
    /\ HasTitleShape(Chunk[blockStart + 1])
    /\ HasGenreSignature(Following(Chunk, blockStart))

\* a spell school phrase, an item rarity phrase or a creature size and type
HasGenrePhrase(ls) ==
  \/ HasSpellLevelPhrase(Stream(ls))
  \/ HasItemRarityPhrase(Stream(ls))
  \/ HasCreaturePhrase(Stream(ls))

\* _refineBlocks has just looked at line refineLine - 1 of a chunk
LineDone ==
  /\ ppc = "refine"
  /\ chunkIndex <= Len(chunks)
  /\ refineLine > 0

(***************************************************************************)
(* C14: in _refineBlocks every line that has a title shape and is followed *)
(* within the lookahead window by a genre signature (spell school phrase,  *)
(* item rarity phrase, creature size and type) starts a new block at that  *)
(* very line, wherever it lies in the chunk, also when the block before it *)
(* started fewer than four lines earlier.                                  *)
(***************************************************************************)
C14_TitleWithSignatureStartsBlock ==
  /\ LineDone
  /\ HasTitleShape(Chunk[refineLine])
  /\ HasGenrePhrase(Following(Chunk, refineLine - 1))
  => blockStart = refineLine - 1

\* the potential blocks that the loop of detectContentBlocks has looked at
LookedAt == SubSeq(potentialBlocks, 1, blockIndex)

\* the block is long enough and some test of _identifyBlockType matches it
IsKept(b) ==
  /\ TextChars(Trim(b)) >= MinBlockLength
  /\ IdentifyBlockType(b) # None

\* the positions of the blocks looked at that are kept
KeptPositions == {q \in 1..blockIndex : IsKept(potentialBlocks[q])}

\* the q-th kept block stands at the q-th place of the output
InDocumentOrder ==
  \A q \in KeptPositions :
    contentBlocks[Cardinality({r \in KeptPositions : r <= q})].content =
      Trim(potentialBlocks[q])

(***************************************************************************)
(* C15: every element of the list of detectContentBlocks has a kind of     *)
(* spell, item, monster, classFeature, feat, background and a trimmed      *)
(* content of at least 10 characters; a candidate block that no test       *)
(* matches or that is shorter appears nowhere in the list, and the blocks  *)
(* kept stand in the order of the document.                                *)
(***************************************************************************)
C15_OnlyTypedLongBlocks ==
  ppc \in {"classify", "detected"} =>
    /\ \A q \in 1..Len(contentBlocks) :
         /\ contentBlocks[q].type \in Kinds
         /\ contentBlocks[q].content = Trim(contentBlocks[q].content)
         /\ TextChars(contentBlocks[q].content) >= MinBlockLength
    /\ Len(contentBlocks) = Cardinality(KeptPositions)
    /\ InDocumentOrder
    /\ \A q \in 1..blockIndex :
         ~IsKept(potentialBlocks[q]) =>
           \A r \in 1..Len(contentBlocks) :
             contentBlocks[r].content # Trim(potentialBlocks[q])

\* the text has been worked through: two different blocks are kept, and
\* between them a short block that the weapon test matches and a long block
\* that no test matches are dropped
C15_Witness ==
  /\ ppc = "detected"
  /\ Len(potentialBlocks) = 4
  /\ IsKept(potentialBlocks[1]) /\ IsKept(potentialBlocks[4])
  /\ TextChars(Trim(potentialBlocks[2])) < MinBlockLength
  /\ IdentifyBlockType(potentialBlocks[2]) = "item"
  /\ TextChars(Trim(potentialBlocks[3])) >= MinBlockLength
  /\ IdentifyBlockType(potentialBlocks[3]) = None
  /\ Len(contentBlocks) = 2
  /\ contentBlocks[1].type = "feat" /\ contentBlocks[2].type = "monster"

(***************************************************************************)
(* Statements about handlePdfFile and importContent, checked on            *)
(* PipelineSpec                                                            *)
(***************************************************************************)

\* parseMonster(text) throws: no line is left to parse
ParseMonsterThrows(text) == NonBlank(CleanInput(text)) = <<>>

\* parseContent returns for the block: the parser module is found and
\* parseMonster does not throw, or every method of the parser is defined
Parses(b) ==
  IF b.type = "monster"
  THEN hasRequire /\ (~ParseMonsterThrows(b.content) \/ ParseOutcome("fallback") = None)
  ELSE ParseOutcome(b.type) = None

\* the positions among the first n blocks for which parseContent returns
ParsedPositions(blks, n) == {q \in 1..n : Parses(blks[q])}

\* the items are the blocks at those positions, in their order
HoldsParsed(items, blks, n) ==
  /\ Len(items) = Cardinality(ParsedPositions(blks, n))
  /\ \A q \in ParsedPositions(blks, n) :
       /\ items[Cardinality(ParsedPositions(blks, q))].type = blks[q].type
       /\ items[Cardinality(ParsedPositions(blks, q))].content = blks[q].content

\* the last run of handlePdfFile has ended and had blocks to parse
RunEnded ==
  /\ ppc = "idle"
  /\ Len(history) > 0
  /\ Len(history[Len(history)].blocks) > 0

(***************************************************************************)
(* C16: when handlePdfFile parses the blocks of one document, a failure of *)
(* parseContent on one block affects that block only: parseContent is      *)
(* called for every other block, and detectedItems ends up holding exactly *)
(* the blocks that were parsed, in their original order.                   *)
(***************************************************************************)
C16_FailureAffectsOneBlock ==
  /\ ppc \in {"blocks", "monster"} =>
       HoldsParsed(detectedItems, contentBlocks, Len(records))
  /\ \A r \in 1..Len(history) :
       /\ Len(history[r].records) = Len(history[r].blocks)
       /\ \A q \in 1..Len(history[r].blocks) :
            /\ history[r].records[q].type = history[r].blocks[q].type
            /\ (history[r].records[q].error = None) = Parses(history[r].blocks[q])
  /\ RunEnded =>
       HoldsParsed(detectedItems, history[Len(history)].blocks,
                   Len(history[Len(history)].blocks))

\* a document of three blocks has been worked through: parseContent has
\* thrown for the second block, the first and the third are the items
C16_Witness ==
  /\ RunEnded
  /\ Len(history[Len(history)].blocks) = 3
  /\ history[Len(history)].records[1].error = None
  /\ history[Len(history)].records[2].error = "TypeError"
  /\ history[Len(history)].records[3].error = None
  /\ Len(detectedItems) = 2
  /\ detectedItems[1].content = history[Len(history)].blocks[1].content
  /\ detectedItems[2].content = history[Len(history)].blocks[3].content
  /\ detectedItems[1].content # detectedItems[2].content

(***************************************************************************)
(* C17: on the PDF tab importContent with n >= 1 selected detected items   *)
(* of any mix of kinds creates one document per selected item and reports  *)
(* n imported; it does not stop with an error before every selected item   *)
(* has been created.                                                       *)
(***************************************************************************)
C17_ImportsEverySelectedItem ==
  [][ImportContent /\ selectedItems # <<>> =>
       /\ notice' = Notice("Successfully imported items.", Len(selectedItems))
       /\ Len(imported') = Len(imported) + Len(selectedItems)]_vars

(***************************************************************************)
(* Statements about the line tagger, checked on Spec                       *)
(***************************************************************************)

\* the line that the next turn of the loop of _parseIntoBlocks looks at
LineNow == lines[i + 1]

\* the turn is for a line that is neither blank nor a note and matches no
\* header that is still open
UnmatchedTurn ==
  /\ pc = "tag" /\ i < Len(lines)
  /\ LineNow # <<>> /\ ~IsP(LineNow[1], "*")
  /\ GetFirstMatch(LineNow, DOMAIN blocks) = None

\* the line of that turn is the last line of the buffer of a section after it
IsLastLineOf(id) ==
  /\ id \in DOMAIN blocks'
  /\ blocks'[id] # <<>>
  /\ blocks'[id][Len(blocks'[id])] = [lineNumber |-> i, line |-> LineNow]

\* the buffer of a section is after the turn what it was before
Untouched(id) ==
  IF id \in DOMAIN blocks THEN id \in DOMAIN blocks' /\ blocks'[id] = blocks[id]
  ELSE id \notin DOMAIN blocks'

(***************************************************************************)
(* C18: in the line tagger, when a line matches no open header, the        *)
(* top-level run is still active and the line has the 'Title Case         *)
(* Word(s).' shape, the active section becomes Features, the top-level run *)
(* ends, and the line is appended to the Features buffer and not to Other, *)
(* whether or not an ability run has already been ended by another header. *)
(***************************************************************************)
C18_TitleLineOpensFeatures ==
  [][TagLine /\ UnmatchedTurn /\ foundTopBlock /\ BlockTitle(LineNow) =>
       /\ currentBlockId' = "features"
       /\ ~foundTopBlock'
       /\ IsLastLineOf("features")
       /\ Untouched("otherBlock")]_vars

\* line number n (counted from 0) stands with its text in the buffer of b
HeldIn(bl, b, n, line) ==
  \E q \in 1..Len(bl[b]) : bl[b][q] = [lineNumber |-> n, line |-> line]

\* the lines that the loop has looked at and that are neither blank nor notes
TaggedLines ==
  {n \in 0..(i - 1) : lines[n + 1] # <<>> /\ ~IsP(lines[n + 1][1], "*")}

(***************************************************************************)
(* C19: every line of the statblock after the name line that is neither    *)
(* blank nor a note is held, with unchanged text, in exactly one section   *)
(* buffer of the map that _parseIntoBlocks returns; no such line is        *)
(* dropped, also not the lines that come before the first recognised       *)
(* section.                                                                *)
(***************************************************************************)
C19_EveryLineHeldOnce ==
  pc \in {"tag", "done"} =>
    \A n \in TaggedLines :
      /\ Cardinality(HoldersOf(blocks, n)) = 1
      /\ \A b \in HoldersOf(blocks, n) : HeldIn(blocks, b, n, lines[n + 1])

\* a line has matched the header of a section that is not top-level: such a
\* section is in the map (Features and Other are opened without a match)
NonTopMatched ==
  \E b \in DOMAIN blocks : b \notin {"features", "otherBlock"} /\ ~IsTop(b)

(***************************************************************************)
(* C20: once a line has matched the header of a section that is not        *)
(* top-level (Actions, Reactions, Legendary Actions, ...), the top-level   *)
(* run flag of the tagger stays false for every later line of the same     *)
(* parse, so no later unlabeled title line can open the Features section.  *)
(***************************************************************************)
C20_TopLevelRunEndsForGood ==
  [][TagLine /\ NonTopMatched =>
       /\ ~foundTopBlock'
       /\ ~(currentBlockId' = "features" /\ currentBlockId # "features")]_vars

\* the line numbers held in the buffer of a section
NumbersIn(bl, b) == {bl[b][q].lineNumber : q \in 1..Len(bl[b])}

\* section b holds a line before and a line after a line held by section c
Straddles(bl, b, c) ==
  \E x, z \in NumbersIn(bl, b), y \in NumbersIn(bl, c) : x < y /\ y < z

(***************************************************************************)
(* C21: in the map returned by _parseIntoBlocks the line numbers held by   *)
(* each section form one contiguous run and the runs of different sections *)
(* do not overlap: no section, Other included, holds lines from both       *)
(* before and after a line held by another section.                        *)
(***************************************************************************)
C21_SectionsAreContiguousRuns ==
  Done => \A b, c \in DOMAIN blocks : b # c => ~Straddles(blocks, b, c)

(***************************************************************************)
(* C22: in the map returned by _parseIntoBlocks every top-level section    *)
(* other than AbilityScores (armor, health, speed, senses, languages,      *)
(* challenge, ...) holds exactly one line, its header line: lines that     *)
(* match no header and repeated header lines of a section already opened   *)
(* are never gathered in the buffer of a top-level section.                *)
(***************************************************************************)
C22_TopLevelSectionsHoldOneLine ==
  Done =>
    \A b \in DOMAIN blocks :
      (IsTop(b) /\ b # "abilities") =>
         /\ Len(blocks[b]) = 1
         /\ RegexMatches(b, blocks[b][1].line)

\* the list of lines with line l put in after its first p lines
InsertAt(ls, p, l) == SubSeq(ls, 1, p) \o <<l>> \o SubSeq(ls, p + 1, Len(ls))

\* a line that the loop of _parseIntoBlocks passes over
IsIgnored(l) == l = <<>> \/ IsP(l[1], "*")

C24_EveryFeatureExtracted ==
  (Done /\ "features" \in DOMAIN blocks) =>
    \A q \in 1..Len(blocks["features"]) :
      IsTitleLine(blocks["features"][q].line) =>
        \E e \in 1..Len(monsterData.features) :
          monsterData.features[e].name = TitleOf(blocks["features"][q].line)

(***************************************************************************)
(* C25: section buffers are append-only during one parse: once             *)
(* _parseIntoBlocks has appended a line to the buffer of a section, the    *)
(* line is still in that buffer when the map is returned, whatever lines   *)
(* come later (also a top-level header followed by another unlabeled title *)
(* line after Features was opened).                                        *)
(***************************************************************************)
C25_BuffersAppendOnly ==
  [][TagLine =>
       \A b \in DOMAIN blocks :
         /\ b \in DOMAIN blocks'
         /\ Len(blocks'[b]) >= Len(blocks[b])
         /\ SubSeq(blocks'[b], 1, Len(blocks[b])) = blocks[b]]_vars

\* the sections that have a header pattern: all but Features and Other
HeaderSections == BlockIds \ {"features", "otherBlock"}

(***************************************************************************)
(* C26: for every section that has a header pattern (all sections but      *)
(* Features and Other) and is present in the map returned by               *)
(* _parseIntoBlocks, the first line of its buffer matches the header       *)
(* pattern of that section, and such a section is created at most once in  *)
(* one parse.                                                              *)
(***************************************************************************)
C26_HeaderSectionsBeginWithHeader ==
  /\ [](pc \in {"tag", "done"} =>
          \A b \in DOMAIN blocks \cap HeaderSections :
            /\ blocks[b] # <<>>
            /\ RegexMatches(b, blocks[b][1].line))
  /\ [][TagLine =>
          \A b \in DOMAIN blocks \cap HeaderSections :
            /\ b \in DOMAIN blocks'
            /\ blocks'[b] # <<>>
            /\ blocks'[b][1] = blocks[b][1]]_vars

\* three sections with a header pattern were opened, a line without a
\* header was gathered in one of them and a header came a second time
C26_Witness ==
  /\ Done
  /\ Cardinality(DOMAIN blocks \cap HeaderSections) >= 3
  /\ \E b \in DOMAIN blocks \cap HeaderSections : Len(blocks[b]) >= 2
  /\ \E n, q \in 1..Len(lines) : n < q /\ HeaderAt(n) # None /\ HeaderAt(n) = HeaderAt(q)

\* the non-blank lines of a list of texts, in order
LinesOf(texts) == NonBlank(Flatten(texts))

\* the chunks that _refineBlocks has gone through, and the lines of the
\* chunk it is working on that it has looked at
ChunksDone == SubSeq(chunks, 1, Min2(chunkIndex - 1, Len(chunks)))
LinesDone ==
  IF chunkIndex <= Len(chunks) THEN SubSeq(Chunk, 1, refineLine) ELSE <<>>

(***************************************************************************)
(* C27: _refineBlocks neither loses, duplicates nor reorders content: the  *)
(* non-blank trimmed lines of the blocks it returns, taken in order, are   *)
(* the non-blank trimmed lines of the chunks it was given, in order, and   *)
(* no block it returns is empty.  The same holds after every turn of its   *)
(* loops for the blocks pushed and the current block together.             *)
(***************************************************************************)
C27_RefineKeepsLines ==
  /\ ppc = "refine" =>
       LinesOf(potentialBlocks) \o NonBlank(currentBlock)
         = LinesOf(ChunksDone) \o NonBlank(LinesDone)
  /\ ppc \in {"classify", "detected"} => LinesOf(potentialBlocks) = LinesOf(chunks)
  /\ ppc \in {"refine", "classify", "detected"} =>
       \A q \in 1..Len(potentialBlocks) :
         /\ NonBlank(potentialBlocks[q]) # <<>>
         /\ potentialBlocks[q] = Trim(potentialBlocks[q])

\* one chunk that holds a blank line was cut into two blocks
C27_Witness ==
  /\ ppc = "classify"
  /\ Len(chunks) = 1
  /\ \E q \in 1..Len(chunks[1]) : chunks[1][q] = <<>>
  /\ Len(potentialBlocks) = 2

\* a blank chunk was passed over and another chunk was kept
C27_WitnessBlankChunk ==
  /\ ppc = "classify"
  /\ \E c \in 1..Len(chunks) : Trim(chunks[c]) = <<>>
  /\ Len(potentialBlocks) >= 1

(***************************************************************************)
(* C28: every kind that detectContentBlocks can emit (spell, item,         *)
(* monster, classFeature, feat, background) is handled by each later stage *)
(* of the pipeline: neither parseContent, mapToFoundrySchema nor           *)
(* validateData raises 'Unknown content type' for a kind that the          *)
(* classifier has produced.                                                *)
(***************************************************************************)
C28_EveryEmittedKindHandled ==
  \A q \in 1..Len(contentBlocks) :
    /\ ParseOutcome(contentBlocks[q].type) # "Error"
    /\ MapOutcome(contentBlocks[q].type, hasRequire) # "Error"
    /\ ~ValidateUnknown(contentBlocks[q].type)

(***************************************************************************)
(* Calls of handlePdfFile that overlap.  The handler is async: it assigns  *)
(* pdfFile, awaits pdfHandler.processPdf and runs the rest in one piece    *)
(* when the text arrives; the event handlers of the window do not await    *)
(* it, so a second file or clearPdf can come while a call is pending.  A   *)
(* file is named by the text that its extraction gives.                    *)
(***************************************************************************)

MaxCalls == 3

UploadFiles == {D_Monster, D_MonsterSplit, D_Noise}

\* parseContent(block.type, block.content) as a function
ParseContentOf(block, require) ==
  IF block.type # "monster" THEN Outcome(block.type, ParseOutcome(block.type), <<>>)
  ELSE IF ~require THEN Outcome("monster", "ReferenceError", <<>>)
  ELSE IF ParseMonsterThrows(block.content)
       THEN Outcome("monster", ParseOutcome("fallback"), <<>>)
       ELSE Outcome("monster", None, ParseMonster(block.content))

\* the loop of handlePdfFile over the blocks from the q-th on
RECURSIVE ItemsFrom(_, _, _, _)
ItemsFrom(blks, q, items, require) ==
  IF q > Len(blks) THEN items
  ELSE ItemsFrom(blks, q + 1,
                 PushParsed(items, blks[q], ParseContentOf(blks[q], require)), require)

\* detectedItems after handlePdfFile has run alone on a file with blocks
ItemsOf(file, require) == ItemsFrom(DetectContentBlocks(file), 1, <<>>, require)

\* the calls that are pending see another call or clearPdf come in
Overtake(cs) ==
  [c \in 1..Len(cs) |->
     IF cs[c].at = "extracting" THEN [cs[c] EXCEPT !.overtaken = TRUE] ELSE cs[c]]

\* handlePdfFile(file) up to the await
HandlePdfFile ==
  /\ Len(calls) < MaxCalls
  /\ \E file \in UploadFiles :
       /\ pdfFile' = <<file>>
       /\ calls' = Append(Overtake(calls),
                          [file |-> file, at |-> "extracting", overtaken |-> FALSE])
  /\ UNCHANGED <<pmvars, lastIndex, hasRequire, extractedText, contentBlocks, records,
                 history, ppc, dvars, wvars>>

\* processPdf resolves for a pending call: the rest of handlePdfFile
Extracted ==
  \E c \in 1..Len(calls) :
    /\ calls[c].at = "extracting"
    /\ calls' = [calls EXCEPT ![c].at = "done"]
    /\ IF DetectContentBlocks(calls[c].file) = <<>>
       THEN /\ notice' = Notice("No content blocks were detected in the PDF.", 0)
            /\ UNCHANGED <<detectedItems, selectedItems>>
       ELSE /\ detectedItems' = ItemsOf(calls[c].file, hasRequire)
            /\ selectedItems' = AllIndexes(ItemsOf(calls[c].file, hasRequire))
            /\ UNCHANGED notice
    /\ UNCHANGED <<pmvars, lastIndex, hasRequire, extractedText, contentBlocks, records,
                   history, ppc, dvars, imported, pdfFile>>

\* processPdf rejects for a pending call: the catch clause reports it
ExtractionFails ==
  \E c \in 1..Len(calls) :
    /\ calls[c].at = "extracting"
    /\ calls' = [calls EXCEPT ![c].at = "done"]
    /\ notice' = Notice("Error processing PDF", 0)
    /\ UNCHANGED <<pmvars, lastIndex, hasRequire, extractedText, contentBlocks, records,
                   history, ppc, dvars, detectedItems, selectedItems, imported, pdfFile>>

\* clearPdf()
ClearPdf ==
  /\ pdfFile' = <<>>
  /\ detectedItems' = <<>>
  /\ selectedItems' = <<>>
  /\ calls' = Overtake(calls)
  /\ UNCHANGED <<pmvars, lastIndex, hasRequire, extractedText, contentBlocks, records,
                 history, ppc, dvars, imported, notice>>

UploadNext == HandlePdfFile \/ Extracted \/ ExtractionFails \/ ClearPdf

UploadSpec == PipelineInit /\ [][UploadNext]_vars

\* every call has finished, and at least one of them was still pending when
\* another call or clearPdf came
AllFinished == \A c \in 1..Len(calls) : calls[c].at = "done"
WasOvertaken == \E c \in 1..Len(calls) : calls[c].overtaken

\* the items that the current file gives, none without a file
CurrentItems == IF pdfFile = <<>> THEN <<>> ELSE ItemsOf(pdfFile[1], hasRequire)

(***************************************************************************)
(* C29: if handlePdfFile is invoked for file A and, while the extraction   *)
(* of A is still pending, handlePdfFile is invoked for file B or clearPdf  *)
(* is invoked, then once all calls have finished detectedItems holds only  *)
(* items extracted from the current pdfFile, or is empty when pdfFile is   *)
(* null: a late completion of A never overwrites the results of B and      *)
(* never fills a cleared list again.                                       *)
(***************************************************************************)
C29_LateCompletionChangesNothing ==
  (AllFinished /\ WasOvertaken) =>
     \A q \in 1..Len(detectedItems) :
       \E r \in 1..Len(CurrentItems) : detectedItems[q] = CurrentItems[r]

(***************************************************************************)
(* C30: when handlePdfFile finishes for a PDF in which                     *)
(* detectContentBlocks finds no blocks, detectedItems and selectedItems    *)
(* are empty, so that the items detected in a PDF handled before cannot be *)
(* imported afterwards by importContent.                                   *)
(***************************************************************************)
C30_NoBlocksClearsItems ==
  [][Detect /\ contentBlocks' = <<>> =>
       detectedItems' = <<>> /\ selectedItems' = <<>>]_vars

====
